---- MODULE Spec2Model ----
(***************************************************************************)
(* Authoritative Shepherd server (server.js): terrain, crossings, the      *)
(* entity registry (players, herds, wolves, food patches), the connection  *)
(* handlers and the simulation tick.                                       *)
(*                                                                         *)
(* Continuous quantities are kept in fixed point: positions in whole       *)
(* pixels, velocities in whole pixels per second, time in milliseconds.    *)
(* Every Math.random() draw is an explicit choice over a small named set.  *)
(***************************************************************************)
EXTENDS Integers, Sequences, FiniteSets, TLC

(* ===== WORLD CONFIG ===== *)
TILE == 20
WORLD == 200
STEP_MS == 90
TICK_MS == 100
SNAP_MS == 100

(* ===== integer helpers ===== *)
Min(a, b) == IF a < b THEN a ELSE b
Max(a, b) == IF a > b THEN a ELSE b

\* the one element of a singleton set
Only(S) == CHOOSE v \in S : TRUE

\* a / b rounded to the nearest integer, b > 0
RoundDiv(a, b) == IF a >= 0 THEN (2 * a + b) \div (2 * b) ELSE 0 - ((2 * (0 - a) + b) \div (2 * b))

RECURSIVE SqrtSearch(_, _, _)
SqrtSearch(n, lo, hi) ==
  IF lo >= hi THEN lo
  ELSE Only({IF mid * mid <= n THEN SqrtSearch(n, mid, hi) ELSE SqrtSearch(n, lo, mid - 1) :
               mid \in {(lo + hi + 1) \div 2}})

\* floor(sqrt(n)), n < 2^30
ISqrt(n) == Only({SqrtSearch(m, 0, 32768) : m \in {n}})

\* Math.hypot in whole pixels
Hypot(dx, dy) == ISqrt(dx * dx + dy * dy)

(* ===== terrain ===== *)
cx == WORLD \div 2
cy == WORLD \div 2
maxR == Min(cx, cy) - 1

\* the while loop that shrinks the band widths until they fit into maxR
RECURSIVE ShrinkBands(_, _)
ShrinkBands(b, m) ==
  IF b.rPasture + b.rWater + b.rGlen + b.rDark > m
  THEN IF b.rPasture > 8 THEN ShrinkBands([b EXCEPT !.rPasture = @ - 1], m)
       ELSE IF b.rGlen > 6 THEN ShrinkBands([b EXCEPT !.rGlen = @ - 1], m)
       ELSE IF b.rWater > 4 THEN ShrinkBands([b EXCEPT !.rWater = @ - 1], m)
       ELSE [b EXCEPT !.rDark = Max(2, @ - 1)]
  ELSE b

\* variant of BandWidths that gives the dark band the whole radius
BandWidthsWide(m) ==
  LET p == (m * 45) \div 100
      w == (m * 17) \div 100
      g == (m * 25) \div 100
  IN ShrinkBands([rPasture |-> p, rWater |-> w, rGlen |-> g, rDark |-> Max(2, m)], m)

\* band widths for max radius m
BandWidths(m) ==
  LET p == (m * 45) \div 100
      w == (m * 17) \div 100
      g == (m * 25) \div 100
  IN ShrinkBands([rPasture |-> p, rWater |-> w, rGlen |-> g,
                  rDark |-> Max(2, m - (p + w + g))], m)

\* variant of EdgesOf whose thresholds are the widths themselves
EdgesOfWidths(m) ==
  LET b == BandWidths(m)
  IN [pasture |-> b.rPasture, water |-> b.rWater, glen |-> b.rGlen, dark |-> b.rDark]

EdgesOf(m) ==
  LET b == BandWidths(m)
  IN [pasture |-> m,
      water   |-> m - b.rPasture,
      glen    |-> m - b.rPasture - b.rWater,
      dark    |-> m - b.rPasture - b.rWater - b.rGlen]

edges == EdgesOf(maxR)

\* (2 * radial(x, y))^2 : dx = x - cx + 0.5, dy = y - cy + 0.5
Radial2x4(x, y) == (2 * (x - cx) + 1) * (2 * (x - cx) + 1) + (2 * (y - cy) + 1) * (2 * (y - cy) + 1)

\* r > e for an integer threshold e (negative thresholds are below every r)
Beyond(x, y, e) == e < 0 \/ Radial2x4(x, y) > 4 * e * e

ringAt(x, y) ==
  IF Beyond(x, y, edges.water) THEN "pasture"
  ELSE IF Beyond(x, y, edges.glen) THEN "water"
  ELSE IF Beyond(x, y, edges.dark) THEN "glen"
  ELSE "dark"

InGrid(x, y) == x >= 0 /\ y >= 0 /\ x < WORLD /\ y < WORLD

(* ===== BRIDGES ===== *)
\* one ray of addBridge: the water tiles met from step i on, until the ray
\* is back on pasture (i > 0) or maxSteps is passed
RECURSIVE addBridge(_, _, _)
addBridge(dx, dy, i) ==
  IF i > Max(cx, cy) + 2 THEN {}
  ELSE LET x == cx + dx * i
           y == cy + dy * i
           ring == ringAt(x, y)
           here == IF ring = "water" THEN {<<x, y>>} ELSE {}
       IN IF ring = "pasture" /\ i > 0 THEN here
          ELSE here \cup addBridge(dx, dy, i + 1)

\* variant of buildBridges with the north and south rays only
buildBridgesNorthSouth == addBridge(0, -1, 0) \cup addBridge(0, 1, 0)

buildBridges == addBridge(0, -1, 0) \cup addBridge(1, 0, 0) \cup addBridge(0, 1, 0) \cup addBridge(-1, 0, 0)

bridgeSet == buildBridges

\* variant of clientAddBridge that stops at the first tile off the water
RECURSIVE clientAddBridgeOnWater(_, _, _)
clientAddBridgeOnWater(dx, dy, i) ==
  IF i > edges.pasture + 2 THEN {}
  ELSE LET x == cx + dx * i
           y == cy + dy * i
       IN IF ringAt(x, y) # "water" THEN {}
          ELSE {<<x, y>>} \cup clientAddBridgeOnWater(dx, dy, i + 1)

\* one ray of the client's addBridge (client bridges.js): the water tiles met
\* from step i on, until the ray is on pasture beyond edges.water + 1 steps or
\* maxSteps = ceil(edges.pasture + 2) is passed
RECURSIVE clientAddBridge(_, _, _)
clientAddBridge(dx, dy, i) ==
  IF i > edges.pasture + 2 THEN {}
  ELSE LET x == cx + dx * i
           y == cy + dy * i
           ring == ringAt(x, y)
           here == IF ring = "water" THEN {<<x, y>>} ELSE {}
       IN IF ring = "pasture" /\ i > edges.water + 1 THEN here
          ELSE here \cup clientAddBridge(dx, dy, i + 1)

clientBuildBridges ==
  clientAddBridge(0, -1, 0) \cup clientAddBridge(1, 0, 0) \cup clientAddBridge(0, 1, 0) \cup clientAddBridge(-1, 0, 0)

\* variant of canWalk that accepts every cell
canWalkAnywhere(nx, ny) == TRUE

\* variant of canWalk that accepts the whole water band
canWalkWater(nx, ny) == InGrid(nx, ny) /\ ringAt(nx, ny) # "dark"

canWalk(nx, ny) ==
  IF ~InGrid(nx, ny) THEN FALSE
  ELSE IF ringAt(nx, ny) = "water" THEN <<nx, ny>> \in bridgeSet
  ELSE ringAt(nx, ny) # "dark"

\* client/sheep.js clampToPasturePx(xPx, yPx) returns the position unchanged:
\* d <= LIMIT_TILES = edges.pasture + 0.2 tiles from the centre (d < 1e-6
\* implies it); both sides are scaled by 10 * TILE and squared
clampToPasturePxKeeps(xPx, yPx) ==
  LET dx == 10 * xPx - 10 * TILE * cx + 5 * TILE
      dy == 10 * yPx - 10 * TILE * cy + 5 * TILE
      limit == (10 * edges.pasture + 2) * TILE
  IN dx * dx + dy * dy <= limit * limit

(* ===== FOOD ===== *)
FOOD_PATCH_COUNT == 140
FOOD_RESPAWN_EVERY_MS == 1500

\* Set.add on an insertion-ordered set
SetAdd(seq, k) == IF \E i \in 1..Len(seq) : seq[i] = k THEN seq ELSE Append(seq, k)

\* variant of SetDelete that leaves the key in the set
SetKeep(seq, k) == seq

\* Set.delete on an insertion-ordered set
SetDelete(seq, k) == SelectSeq(seq, LAMBDA e : e # k)

SetHas(seq, k) == \E i \in 1..Len(seq) : seq[i] = k

\* variant of createFoodPatches without the ring test: the first n distinct
\* cells of the budget, whatever their band
createFoodPatchesAnyRing(n, samples) ==
  LET budget == Min(Len(samples), n * 50)
      Fresh(i) == \A j \in 1..(i - 1) : samples[j] # samples[i]
      Rank(i) == Cardinality({j \in 1..i : Fresh(j)})
      taken == SelectSeq([i \in 1..budget |-> i], LAMBDA i : Fresh(i) /\ Rank(i) <= n)
  IN [k \in 1..Len(taken) |-> samples[taken[k]]]

\* variant of createFoodPatches without the guard counter
createFoodPatchesUnguarded(n, samples) ==
  LET Fresh(i) == /\ ringAt(samples[i][1], samples[i][2]) = "pasture"
                  /\ \A j \in 1..(i - 1) : samples[j] # samples[i]
      Rank(i) == Cardinality({j \in 1..i : Fresh(j)})
      taken == SelectSeq([i \in 1..Len(samples) |-> i], LAMBDA i : Fresh(i) /\ Rank(i) <= n)
  IN [k \in 1..Len(taken) |-> samples[taken[k]]]

\* createFoodPatches(n) run on the list of cells Math.random() yields. The
\* loop takes one sample per round, for at most n*50 rounds, and skips a cell
\* that is not pasture; Set.add ignores a repeat; it stops at n cells. So the
\* result is the first n first-occurrences of pasture cells among the samples
\* of the budget, in the order drawn.
createFoodPatches(n, samples) ==
  LET Taken(drawn) ==
        LET budget == Min(Len(drawn), n * 50)
            Fresh(i) == /\ ringAt(drawn[i][1], drawn[i][2]) = "pasture"
                        /\ \A j \in 1..(i - 1) : drawn[j] # drawn[i]
            Rank(i) == Cardinality({j \in 1..i : Fresh(j)})
        IN SelectSeq([i \in 1..budget |-> i], LAMBDA i : Fresh(i) /\ Rank(i) <= n)
  IN Only({[k \in 1..Len(taken) |-> drawn[taken[k]]] :
             <<drawn, taken>> \in {<<samples, Taken(samples)>>}})

(* ===== SHEEP / WOLVES SIM ===== *)
FOLLOW_SPEED == 280
SEEK_SPEED == 260
BLEND_RATE_S == 9
STOP_DECAY_S == 7
SEP_RADIUS == 20
SEP_PUSH == 1200
SEEK_TILES == 5
MEALS_TO_BREED == 3
BREED_COOLDOWN_MS == 8000

\* fixed-point scale of the blend and brake factors
FP == 100000

\* exp(-x) * FP for x = xMilli / 1000, by its power series
RECURSIVE ExpSeries(_, _, _, _)
ExpSeries(xMilli, n, term, acc) ==
  IF term = 0 \/ n > 40 THEN acc
  ELSE Only({ExpSeries(xMilli, n + 1, next, sum) :
               next \in {(term * xMilli) \div (1000 * n)},
               sum \in {IF n % 2 = 1 THEN acc - (term * xMilli) \div (1000 * n)
                                     ELSE acc + (term * xMilli) \div (1000 * n)}})

ExpNeg(xMilli) == Only({Max(0, e) : e \in {Only({ExpSeries(x, 1, FP, FP) : x \in {xMilli}})}})

\* blendFactor(k, dt) * FP, dt in milliseconds
blendFactor(k, dtEff) == FP - ExpNeg(Max(0, k) * dtEff)

normTo(vx, vy, mag) ==
  Only({[vx |-> RoundDiv(vx * mag, d), vy |-> RoundDiv(vy * mag, d)] :
          d \in {IF Hypot(vx, vy) = 0 THEN 1 ELSE Hypot(vx, vy)}})

\* index and tile of the nearest patch within maxTiles of pixel (xPx, yPx),
\* the first such patch in set order on ties; 0 when there is none
nearestPatchInTiles(food, xPx, yPx, maxTiles) ==
  LET D2(i, tx0, ty0) ==
        (food[i][1] - tx0) * (food[i][1] - tx0) + (food[i][2] - ty0) * (food[i][2] - ty0)
      Best(near, tx0, ty0) ==
        IF near = {} THEN 0
        ELSE CHOOSE i \in near :
               \A j \in near : D2(i, tx0, ty0) < D2(j, tx0, ty0)
                                \/ (D2(i, tx0, ty0) = D2(j, tx0, ty0) /\ i <= j)
      Within(tx0, ty0) ==
        Only({Best(near, tx0, ty0) :
                near \in {{i \in 1..Len(food) : D2(i, tx0, ty0) <= maxTiles * maxTiles}}})
  IN Only({Within(tx0, ty0) : tx0 \in {xPx \div TILE}, ty0 \in {yPx \div TILE}})

OFFSET_RADIUS == 24

(* ===== Authoritative State ===== *)
VARIABLES
  players,           \* Map id -> [id, name, x, y, held, moveCooldown]
  herds,             \* Map id -> flock, a sequence of sheep
  order,             \* key order of the players and herds Maps
  wolves,            \* [{x, y, vx, vy, target, life}], with history fields uid, age, caught
  foodPatches,       \* Set of tile keys, in insertion order
  foodRespawnTimer,
  accumSnap,
  conns,             \* the sockets accepted so far: [id, name, held, open]
  outbox,            \* per socket, the messages sent to it
  nextUid,           \* history: next identity for a sheep or a wolf
  ticks,             \* history: ticks run so far
  ev                 \* history: what the last handler did

vars == <<players, herds, order, wolves, foodPatches, foodRespawnTimer, accumSnap,
          conns, outbox, nextUid, ticks, ev>>

NoHeld == [up |-> FALSE, down |-> FALSE, left |-> FALSE, right |-> FALSE]
Null == "null"

\* Map.delete on the key order
OrderDelete(ord, id) == SelectSeq(ord, LAMBDA k : k # id)

\* Map.set on the key order: a new key goes last, a known key keeps its place
OrderSet(ord, id) == IF \E i \in 1..Len(ord) : ord[i] = id THEN ord ELSE Append(ord, id)

\* variant of MapDelete that keeps the key
MapKeep(f, k) == f

\* f with key k removed
MapDelete(f, k) == [j \in DOMAIN f \ {k} |-> f[j]]

\* f with key k set to v
MapSet(f, k, v) == [j \in DOMAIN f \cup {k} |-> IF j = k THEN v ELSE f[j]]

(* Helpers *)
\* spawnOnPasture run on the cells Math.random() yields: the first pasture cell
\* among the first 2000 samples, else the fixed cell
spawnOnPasture(samples) ==
  LET hits == {g \in 1..Min(2000, Len(samples)) : ringAt(samples[g][1], samples[g][2]) = "pasture"}
  IN IF hits = {} THEN <<cx, edges.pasture - 2>>
     ELSE samples[CHOOSE g \in hits : \A j \in hits : g <= j]

\* one sheep of a new flock or a new lamb, at the owner's pixel plus its offset
NewSheep(px, py, off, uid) ==
  [x |-> px + off[1], y |-> py + off[2], vx |-> 0, vy |-> 0, full |-> 0, cd |-> 0,
   ox |-> off[1], oy |-> off[2], uid |-> uid]

\* variant of ensureHerd that never creates a flock
ensureHerdNever(hs, ps, id, offs, uid) == hs

\* ensureHerd(id): the flock kept if there is one, else two sheep around the player
ensureHerd(hs, ps, id, offs, uid) ==
  IF id \in DOMAIN hs THEN hs
  ELSE LET px == ps[id].x * TILE + TILE \div 2
           py == ps[id].y * TILE + TILE \div 2
       IN MapSet(hs, id, <<NewSheep(px, py, offs[1], uid), NewSheep(px, py, offs[2], uid + 1)>>)

(* ===== WS server ===== *)
\* what a socket has been sent: the type of its first message, the number of
\* hellos, and the last message
send(box, m) ==
  [first |-> IF box.first = Null THEN m.type ELSE box.first,
   hellos |-> box.hellos + (IF m.type = "hello" THEN 1 ELSE 0),
   last |-> m]

NoBox == [first |-> Null, hellos |-> 0, last |-> [type |-> Null]]

\* variant of broadcast that greets every open socket again before the message
broadcastGreeting(box, cs, m) ==
  [c \in DOMAIN box |->
     IF cs[c].open
       THEN send(send(box[c], [type |-> "hello", id |-> cs[c].id, name |-> cs[c].name]), m)
       ELSE box[c]]

\* every socket with readyState OPEN is sent the message
broadcast(box, cs, m) == [c \in DOMAIN box |-> IF cs[c].open THEN send(box[c], m) ELSE box[c]]

\* "Shep_" + ws.id.slice(0, 4)
DefaultName(id) == <<"S", "h", "e", "p", "_">> \o SubSeq(id, 1, Min(4, Len(id)))

IsSpace(ch) == ch = " "

\* variant of Trim that strips nothing
TrimNone(str) == str

\* String.prototype.trim on a sequence of characters
RECURSIVE TrimLeft(_)
TrimLeft(str) == IF str # <<>> /\ IsSpace(Head(str)) THEN TrimLeft(Tail(str)) ELSE str

RECURSIVE TrimRight(_)
TrimRight(str) ==
  IF str # <<>> /\ IsSpace(str[Len(str)]) THEN TrimRight(SubSeq(str, 1, Len(str) - 1)) ELSE str

Trim(str) == TrimRight(TrimLeft(str))

\* variant of Slice0 that keeps the whole string
SliceAll(str, n) == str

\* str.slice(0, n)
Slice0(str, n) == SubSeq(str, 1, Min(n, Len(str)))

NoEv == [kind |-> "init"]

(* Connection lifecycle *)
\* wss.on("connection"): id is the random socket id, samples the cells drawn by
\* spawnOnPasture, offs the two offsets drawn by ensureHerd. The player keeps,
\* as history, the socket that created it (conn).
Connect(id, samples, offs) ==
  LET spawn == spawnOnPasture(samples)
      name == DefaultName(id)
      p == [id |-> id, name |-> name, x |-> spawn[1], y |-> spawn[2], held |-> NoHeld,
            moveCooldown |-> 0, conn |-> Len(conns) + 1]
      ps == MapSet(players, id, p)
  IN /\ players' = ps
     /\ herds' = ensureHerd(herds, ps, id, offs, nextUid)
     /\ order' = OrderSet(order, id)
     /\ nextUid' = IF id \in DOMAIN herds THEN nextUid ELSE nextUid + 2
     /\ conns' = Append(conns, [id |-> id, name |-> name, held |-> NoHeld, open |-> TRUE])
     /\ outbox' = Append(outbox, send(NoBox, [type |-> "hello", id |-> id, name |-> name]))
     /\ ev' = [kind |-> "connect", conn |-> Len(conns) + 1, fresh |-> id \notin DOMAIN herds]
     /\ UNCHANGED <<wolves, foodPatches, foodRespawnTimer, accumSnap, ticks>>

\* the four flags of msg.held, each coerced with !!
HeldOf(set) == [up |-> "up" \in set, down |-> "down" \in set, left |-> "left" \in set,
                right |-> "right" \in set]

\* ws.on("message"): msg is the received buffer, described by how it parses
OnMessage(c, msg) ==
  LET ws == conns[c]
      parsed == msg.kind = "object"
      join == parsed /\ msg.type = "join" /\ msg.nameIsStr /\ Trim(msg.name) # <<>>
      input == parsed /\ msg.type = "input" /\ msg.heldTruthy
      name1 == IF join THEN Slice0(Trim(msg.name), 24) ELSE ws.name
      held1 == IF input THEN HeldOf(msg.held) ELSE ws.held
      known == ws.id \in DOMAIN players
  IN /\ conns' = [conns EXCEPT ![c] = [@ EXCEPT !.name = name1, !.held = held1]]
     /\ players' = IF known
                   THEN [players EXCEPT ![ws.id] =
                           [@ EXCEPT !.name = IF join THEN name1 ELSE @,
                                     !.held = IF input THEN held1 ELSE @]]
                   ELSE players
     /\ ev' = [kind |-> "message", conn |-> c, join |-> join, input |-> input, msg |-> msg]
     /\ UNCHANGED <<herds, order, wolves, foodPatches, foodRespawnTimer, accumSnap, outbox,
                    nextUid, ticks>>

\* ws.on("close")
Close(c) ==
  /\ conns[c].open
  /\ conns' = [conns EXCEPT ![c] = [@ EXCEPT !.open = FALSE]]
  /\ players' = MapDelete(players, conns[c].id)
  /\ herds' = MapDelete(herds, conns[c].id)
  /\ order' = OrderDelete(order, conns[c].id)
  /\ ev' = [kind |-> "close", conn |-> c]
  /\ UNCHANGED <<wolves, foodPatches, foodRespawnTimer, accumSnap, outbox, nextUid, ticks>>

(* ===== Server simulation loop ===== *)
\* dt = Math.max(0.001, dtMs / 1000), in milliseconds
DtEff(dtMs) == Max(1, dtMs)

\* variant of MovePlayer in which every held direction acts in the same step
MovePlayerAllHeld(p, dtMs) ==
  LET cd == p.moveCooldown - dtMs
      nx == p.x + (IF p.held.right THEN 1 ELSE 0) - (IF p.held.left THEN 1 ELSE 0)
      ny == p.y + (IF p.held.down THEN 1 ELSE 0) - (IF p.held.up THEN 1 ELSE 0)
      any == p.held.up \/ p.held.down \/ p.held.left \/ p.held.right
  IN IF cd <= 0 /\ any
     THEN IF canWalk(nx, ny)
          THEN [p EXCEPT !.x = nx, !.y = ny, !.moveCooldown = STEP_MS]
          ELSE [p EXCEPT !.moveCooldown = STEP_MS]
     ELSE [p EXCEPT !.moveCooldown = cd]

\* advance one player on the movement cadence
MovePlayer(p, dtMs) ==
  LET cd == p.moveCooldown - dtMs
      dir == IF p.held.up THEN <<0, -1>>
             ELSE IF p.held.down THEN <<0, 1>>
             ELSE IF p.held.left THEN <<-1, 0>>
             ELSE IF p.held.right THEN <<1, 0>>
             ELSE <<0, 0>>
      nx == p.x + dir[1]
      ny == p.y + dir[2]
  IN IF cd <= 0 /\ dir # <<0, 0>>
     THEN IF canWalk(nx, ny)
          THEN [p EXCEPT !.x = nx, !.y = ny, !.moveCooldown = STEP_MS]
          ELSE [p EXCEPT !.moveCooldown = STEP_MS]
     ELSE [p EXCEPT !.moveCooldown = cd]

Moving(p) == p.held.up \/ p.held.down \/ p.held.left \/ p.held.right

\* the separation push on sheep i from the flock members j..Len(flock)
RECURSIVE Separation(_, _, _, _)
Separation(flock, i, j, dtEff) ==
  IF j > Len(flock) THEN <<0, 0>>
  ELSE LET dx == flock[i].x - flock[j].x
           dy == flock[i].y - flock[j].y
           d2 == dx * dx + dy * dy
       IN Only({IF i # j /\ d2 > 0 /\ d2 < SEP_RADIUS * SEP_RADIUS
                THEN <<rest[1] + RoundDiv(dx * SEP_PUSH * (SEP_RADIUS - d) * dtEff,
                                          d * SEP_RADIUS * 1000),
                       rest[2] + RoundDiv(dy * SEP_PUSH * (SEP_RADIUS - d) * dtEff,
                                          d * SEP_RADIUS * 1000)>>
                ELSE rest :
                  rest \in {Separation(flock, i, j + 1, dtEff)}, d \in {Max(1, ISqrt(d2))}})

\* desired velocity before separation: follow the moving owner, else seek food
Desired(s, p, food) ==
  LET px == p.x * TILE + TILE \div 2
      py == p.y * TILE + TILE \div 2
      Seek(found) ==
        IF found # 0
        THEN normTo(food[found][1] * TILE + TILE \div 2 - s.x,
                    food[found][2] * TILE + TILE \div 2 - s.y, SEEK_SPEED)
        ELSE [vx |-> 0, vy |-> 0]
  IN IF Moving(p) THEN normTo(px + s.ox - s.x, py + s.oy - s.y, FOLLOW_SPEED)
     ELSE IF s.full < MEALS_TO_BREED
     THEN Only({Seek(found) : found \in {nearestPatchInTiles(food, s.x, s.y, SEEK_TILES)}})
     ELSE [vx |-> 0, vy |-> 0]

\* whether the sheep at pixel (x, y) with satiety full eats the patch under it
Grazes(food, x, y, full) == full < MEALS_TO_BREED /\ SetHas(food, <<x \div TILE, y \div TILE>>)

\* variant of Graze without the Math.max(0, ...) floor on the cooldown
GrazeUnclamped(s, x, y, vx, vy, food, dtMs, eats) ==
  [sheep |-> [s EXCEPT !.x = x, !.y = y, !.vx = vx, !.vy = vy,
                       !.full = IF eats THEN Min(MEALS_TO_BREED, @ + 1) ELSE @,
                       !.cd = @ - dtMs],
   food |-> IF eats THEN SetDelete(food, <<x \div TILE, y \div TILE>>) ELSE food,
   ate |-> IF eats THEN <<[uid |-> s.uid, cell |-> <<x \div TILE, y \div TILE>>, was |-> s.full]>>
           ELSE <<>>]

\* grazing and the cooldown tick of sheep s, now at (x, y) with velocity (vx, vy)
Graze(s, x, y, vx, vy, food, dtMs, eats) ==
  [sheep |-> [s EXCEPT !.x = x, !.y = y, !.vx = vx, !.vy = vy,
                       !.full = IF eats THEN Min(MEALS_TO_BREED, @ + 1) ELSE @,
                       !.cd = Max(0, @ - dtMs)],
   food |-> IF eats THEN SetDelete(food, <<x \div TILE, y \div TILE>>) ELSE food,
   ate |-> IF eats THEN <<[uid |-> s.uid, cell |-> <<x \div TILE, y \div TILE>>, was |-> s.full]>>
           ELSE <<>>]

\* position integrated from the new velocity
Integrate(s, x, y, vx, vy, food, dtMs) ==
  Only({Graze(s, x, y, vx, vy, food, dtMs, eats) : eats \in {Grazes(food, x, y, s.full)}})

\* stop decay of the blended velocity (bvx, bvy) when nothing is desired
Brake(s, bvx, bvy, stop, brake, food, dtMs) ==
  Only({Integrate(s, s.x + RoundDiv(vx * DtEff(dtMs), 1000), s.y + RoundDiv(vy * DtEff(dtMs), 1000),
                  vx, vy, food, dtMs) :
          vx \in {IF stop THEN RoundDiv(bvx * brake, FP) ELSE bvx},
          vy \in {IF stop THEN RoundDiv(bvy * brake, FP) ELSE bvy}})

\* blend of the velocity toward the desired one (dvx, dvy)
Blend(s, dvx, dvy, alpha, brake, food, dtMs) ==
  Only({Brake(s, bvx, bvy, dvx = 0 /\ dvy = 0, brake, food, dtMs) :
          bvx \in {s.vx + RoundDiv((dvx - s.vx) * alpha, FP)},
          bvy \in {s.vy + RoundDiv((dvy - s.vy) * alpha, FP)}})

\* desired velocity plus the separation push
Steer(s, want, sep, food, dtMs) ==
  Only({Blend(s, want.vx + sep[1], want.vy + sep[2], alpha, brake, food, dtMs) :
          alpha \in {blendFactor(BLEND_RATE_S, DtEff(dtMs))},
          brake \in {ExpNeg(STOP_DECAY_S * DtEff(dtMs))}})

\* one pass of the per-sheep loop body for sheep i: steer, integrate, graze, cool down
UpdateSheep(flock, i, p, food, dtMs) ==
  Only({Steer(flock[i], want, sep, food, dtMs) :
          want \in {Desired(flock[i], p, food)}, sep \in {Separation(flock, i, 1, DtEff(dtMs))}})

\* the rest of the per-sheep loop once sheep i has been updated to u
RECURSIVE UpdateFlock(_, _, _, _, _, _)
FlockStep(flock, i, p, dtMs, ate, u) ==
  UpdateFlock([flock EXCEPT ![i] = u.sheep], i + 1, p, u.food, dtMs, ate \o u.ate)

\* the per-sheep loop from sheep i on; sheep are updated in place, in order
UpdateFlock(flock, i, p, food, dtMs, ate) ==
  IF i > Len(flock) THEN [flock |-> flock, food |-> food, ate |-> ate]
  ELSE Only({FlockStep(flock, i, p, dtMs, ate, u) : u \in {UpdateSheep(flock, i, p, food, dtMs)}})

\* variant of Ready that does not look at the cooldown
ReadyFed(flock) == SelectSeq([i \in 1..Len(flock) |-> i],
                             LAMBDA i : flock[i].full >= MEALS_TO_BREED)

\* indices of the sheep ready to breed, in flock order
Ready(flock) == SelectSeq([i \in 1..Len(flock) |-> i],
                          LAMBDA i : flock[i].full >= MEALS_TO_BREED /\ flock[i].cd = 0)

\* variant of BreedPair that resets every ready sheep, not only the first two
BreedAllReady(flock, a, b, lambSheep) ==
  Append([i \in 1..Len(flock) |->
            IF flock[i].full >= MEALS_TO_BREED /\ flock[i].cd = 0
            THEN [flock[i] EXCEPT !.full = 0, !.cd = BREED_COOLDOWN_MS]
            ELSE flock[i]],
         lambSheep)

\* variant of BreedPair that pushes the lamb twice
BreedPairTwins(flock, a, b, lambSheep) ==
  Append(Append([i \in 1..Len(flock) |->
                   IF i = a \/ i = b THEN [flock[i] EXCEPT !.full = 0, !.cd = BREED_COOLDOWN_MS]
                   ELSE flock[i]],
                lambSheep), lambSheep)

\* the flock with the two sheep at indices a and b reset and one lamb pushed
BreedPair(flock, a, b, lambSheep) ==
  Append([i \in 1..Len(flock) |->
            IF i = a \/ i = b THEN [flock[i] EXCEPT !.full = 0, !.cd = BREED_COOLDOWN_MS]
            ELSE flock[i]],
         lambSheep)

\* breed if 2 ready: the first two are reset, one lamb is pushed near the player
BreedReady(flock, p, off, uid, ready) ==
  IF Len(ready) >= 2
  THEN BreedPair(flock, ready[1], ready[2],
                 NewSheep(p.x * TILE + TILE \div 2, p.y * TILE + TILE \div 2, off, uid))
  ELSE flock

Breed(flock, p, off, uid) == BreedReady(flock, p, off, uid, Ready(flock))

\* the herd loop after herd id was updated to u and bred to b; the log keeps, per
\* herd, the flock before and after the breed block
RECURSIVE UpdateHerds(_, _, _, _, _, _, _, _, _)
HerdBred(hs, ps, ord, k, dtMs, off, uid, log, u, b) ==
  UpdateHerds([hs EXCEPT ![ord[k]] = b], ps, ord, k + 1, u.food, dtMs, off,
              IF Len(b) > Len(u.flock) THEN uid + 1 ELSE uid,
              [ate |-> log.ate \o u.ate,
               bred |-> Append(log.bred, [id |-> ord[k], before |-> u.flock, after |-> b])])

HerdStep(hs, ps, ord, k, dtMs, off, uid, log, u) ==
  Only({HerdBred(hs, ps, ord, k, dtMs, off, uid, log, u, b) :
          b \in {Breed(u.flock, ps[ord[k]], off, uid)}})

\* the herd loop from the k-th key on: each flock is updated, then bred
UpdateHerds(hs, ps, ord, k, food, dtMs, off, uid, log) ==
  IF k > Len(ord) THEN [herds |-> hs, food |-> food, uid |-> uid, log |-> log]
  ELSE IF ord[k] \notin DOMAIN ps \/ ord[k] \notin DOMAIN hs
       THEN UpdateHerds(hs, ps, ord, k + 1, food, dtMs, off, uid, log)
       ELSE Only({HerdStep(hs, ps, ord, k, dtMs, off, uid, log, u) :
                    u \in {UpdateFlock(hs[ord[k]], 1, ps[ord[k]], food, dtMs, <<>>)}})

(* ===== Wolves ===== *)
WOLF_MAX == 5
\* client/wolves.js: w.ttl = Math.min(w.ttl, 400) after a catch
LINGER_MS == 400
WOLF_LIFE_MS == 30000
WOLF_SPEED == 190
CAPTURE_DIST == 12

\* wolves vs sheep: one entry per sheep, herds in key order, sheep in flock order;
\* ref is the sheep object, idx its (zero-based) index when the list was built
RECURSIVE allTargetsFrom(_, _, _)
allTargetsFrom(hs, ord, k) ==
  IF k > Len(ord) THEN <<>>
  ELSE (IF ord[k] \in DOMAIN hs
        THEN [i \in 1..Len(hs[ord[k]]) |-> [herdId |-> ord[k], idx |-> i - 1, ref |-> hs[ord[k]][i]]]
        ELSE <<>>) \o allTargetsFrom(hs, ord, k + 1)

\* spawnWolf run on the cells Math.random() yields: a wolf on the first glen or
\* dark cell among the first 1000 samples, else no wolf
spawnWolf(ws, samples, uid) ==
  LET hits == {g \in 1..Min(1000, Len(samples)) :
                 ringAt(samples[g][1], samples[g][2]) \in {"glen", "dark"}}
      c == samples[CHOOSE g \in hits : \A j \in hits : g <= j]
  IN IF hits = {} THEN ws
     ELSE Append(ws, [x |-> c[1] * TILE + TILE \div 2, y |-> c[2] * TILE + TILE \div 2,
                      vx |-> 0, vy |-> 0, target |-> <<>>, life |-> WOLF_LIFE_MS,
                      uid |-> uid, age |-> 0, caught |-> 0])

\* index of the closest target of wolf w, the first on ties; 0 without targets
Closest(w, targets) ==
  LET D2(k) == (targets[k].ref.x - w.x) * (targets[k].ref.x - w.x)
               + (targets[k].ref.y - w.y) * (targets[k].ref.y - w.y)
  IN IF targets = <<>> THEN 0
     ELSE CHOOSE k \in 1..Len(targets) :
            \A j \in 1..Len(targets) : D2(k) < D2(j) \/ (D2(k) = D2(j) /\ k <= j)

\* velocity and position of wolf w set from its heading
MoveWolf(w, dtEff, target, to) ==
  [w EXCEPT !.target = target, !.vx = to.vx, !.vy = to.vy,
            !.x = @ + RoundDiv(to.vx * dtEff, 1000),
            !.y = @ + RoundDiv(to.vy * dtEff, 1000)]

\* heading of wolf w: toward its closest sheep (index best) when there is one
\* and the 0.9 draw succeeds, else along the drift draw
SteerTo(w, dtEff, targets, draw, best) ==
  IF best # 0 /\ draw.chase
  THEN MoveWolf(w, dtEff, <<targets[best].herdId, targets[best].idx>>,
                normTo(targets[best].ref.x - w.x, targets[best].ref.y - w.y, WOLF_SPEED))
  ELSE MoveWolf(w, dtEff, w.target, normTo(draw.drift[1], draw.drift[2], WOLF_SPEED))

\* the loop body of updateWolves for a wolf that has not expired
SteerWolf(w, dtEff, targets, draw) == SteerTo(w, dtEff, targets, draw, Closest(w, targets))

\* variant of AgeWolf whose countdown is stuck
AgeWolfStalled(w) == [w EXCEPT !.age = @ + 1]

\* lifetime countdown of one wolf; age counts the ticks it has been through
AgeWolf(w) == [w EXCEPT !.life = @ - TICK_MS, !.age = @ + 1]

\* whether a wolf is despawned after its countdown
Expired(w) == w.life <= 0

\* updateWolves after the spawn draw, from wolf i down: every wolf ages; the
\* expired are spliced out, the others steer
RECURSIVE WolfLoop(_, _, _, _, _)
WolfLoop(ws, i, dtEff, targets, draws) ==
  IF i < 1 THEN ws
  ELSE IF Expired(AgeWolf(ws[i]))
       THEN WolfLoop(SubSeq(ws, 1, i - 1) \o SubSeq(ws, i + 1, Len(ws)), i - 1, dtEff,
                     targets, draws)
       ELSE WolfLoop([ws EXCEPT ![i] = SteerWolf(AgeWolf(ws[i]), dtEff, targets, draws[i])],
                     i - 1, dtEff, targets, draws)

\* variant of SpawnAllowed without the cap
SpawnUncapped(ws, hit) == hit

\* whether the spawn draw adds a wolf attempt: below the cap and the 5% draw hit
SpawnAllowed(ws, hit) == Len(ws) < WOLF_MAX /\ hit

\* the wolves after the spawn draw
SpawnDraw(ws, spawn, uid) ==
  IF SpawnAllowed(ws, spawn.hit) THEN spawnWolf(ws, spawn.samples, uid) ELSE ws

WolvesFrom(ws1, dtEff, targets, draws) == WolfLoop(ws1, Len(ws1), dtEff, targets, draws)

updateWolves(ws, dtEff, targets, spawn, draws, uid) ==
  WolvesFrom(SpawnDraw(ws, spawn, uid), dtEff, targets, draws)

\* Array.splice(idx, 1) with a zero-based idx
Splice(seq, idx) ==
  IF idx + 1 > Len(seq) THEN seq ELSE SubSeq(seq, 1, idx) \o SubSeq(seq, idx + 2, Len(seq))

\* whether wolf w is within capture distance of target t
InReach(w, t) ==
  (w.x - t.ref.x) * (w.x - t.ref.x) + (w.y - t.ref.y) * (w.y - t.ref.y) < CAPTURE_DIST * CAPTURE_DIST

\* the targets in reach of wolf w, by index
Hits(w, targets) == {k \in 1..Len(targets) : InReach(w, targets[k])}

Lowest(set) == Only({IF S = {} THEN 0 ELSE CHOOSE k \in S : \A j \in S : k <= j : S \in {set}})

\* index of the first target within capture distance of wolf w; 0 if none
FirstHit(w, targets) == Lowest(Hits(w, targets))

\* identity of the sheep that herds.get(t.herdId).splice(t.idx, 1) removes; 0 if none
Removed(hs, t) ==
  IF t.herdId \in DOMAIN hs /\ t.idx + 1 <= Len(hs[t.herdId]) THEN hs[t.herdId][t.idx + 1].uid ELSE 0

\* wolf capture check, from wolf i on: the first target in range has its herd
\* spliced at the target's recorded index
RECURSIVE CaptureLoop(_, _, _, _, _)
\* variant of CaptureHit that despawns the wolf with its catch
CaptureHitDespawn(hs, ws, i, targets, log, t) ==
  CaptureLoop(IF t.herdId \in DOMAIN hs THEN [hs EXCEPT ![t.herdId] = Splice(@, t.idx)] ELSE hs,
              Splice(ws, i - 1), i, targets,
              Append(log, [wolf |-> ws[i].uid, herdId |-> t.herdId, checked |-> t.ref.uid,
                           removed |-> Removed(hs, t)]))

CaptureHit(hs, ws, i, targets, log, t) ==
  CaptureLoop(IF t.herdId \in DOMAIN hs THEN [hs EXCEPT ![t.herdId] = Splice(@, t.idx)] ELSE hs,
              [ws EXCEPT ![i].caught = @ + (IF Removed(hs, t) # 0 THEN 1 ELSE 0)],
              i + 1, targets,
              Append(log, [wolf |-> ws[i].uid, herdId |-> t.herdId, checked |-> t.ref.uid,
                           removed |-> Removed(hs, t)]))

CaptureCheck(hs, ws, i, targets, log, k) ==
  IF k = 0 THEN CaptureLoop(hs, ws, i + 1, targets, log)
  ELSE CaptureHit(hs, ws, i, targets, log, targets[k])

CaptureLoop(hs, ws, i, targets, log) ==
  IF i > Len(ws) THEN [herds |-> hs, wolves |-> ws, log |-> log]
  ELSE CaptureCheck(hs, ws, i, targets, log, FirstHit(ws[i], targets))

(* ===== respawn and snapshot ===== *)
\* variant of AddAll that drops the sampled patch
AddNone(food, one) == food

\* for (const k of one) foodPatches.add(k)
AddAll(food, one) == IF one = <<>> THEN food ELSE SetAdd(food, one[1])

\* variant of Respawn without the size check against FOOD_PATCH_COUNT
RespawnUnguarded(food, timer, dtMs, samples) ==
  IF timer + dtMs >= FOOD_RESPAWN_EVERY_MS
  THEN [timer |-> 0, food |-> AddAll(food, createFoodPatches(1, samples))]
  ELSE [timer |-> timer + dtMs, food |-> food]

\* respawn patches: the timer after this tick and the patches after it
Respawn(food, timer, dtMs, samples) ==
  IF timer + dtMs >= FOOD_RESPAWN_EVERY_MS
  THEN [timer |-> 0,
        food |-> IF Len(food) < FOOD_PATCH_COUNT
                 THEN AddAll(food, createFoodPatches(1, samples))
                 ELSE food]
  ELSE [timer |-> timer + dtMs, food |-> food]

\* variant of Snapshot that leaves the wolves out
SnapshotNoWolves(ps, hs, ord, ws, food) ==
  [type |-> "snapshot",
   players |-> [k \in 1..Len(ord) |-> [id |-> ord[k], name |-> ps[ord[k]].name,
                                       x |-> ps[ord[k]].x, y |-> ps[ord[k]].y]],
   herds |-> [id \in DOMAIN hs |->
                [i \in 1..Len(hs[id]) |-> <<hs[id][i].x, hs[id][i].y, hs[id][i].full,
                                            Max(0, hs[id][i].cd)>>]],
   wolves |-> <<>>,
   patches |-> food]

\* the snapshot message built from the registry
Snapshot(ps, hs, ord, ws, food) ==
  [type |-> "snapshot",
   players |-> [k \in 1..Len(ord) |-> [id |-> ord[k], name |-> ps[ord[k]].name,
                                       x |-> ps[ord[k]].x, y |-> ps[ord[k]].y]],
   herds |-> [id \in DOMAIN hs |->
                [i \in 1..Len(hs[id]) |-> <<hs[id][i].x, hs[id][i].y, hs[id][i].full,
                                            Max(0, hs[id][i].cd)>>]],
   wolves |-> [i \in 1..Len(ws) |-> <<ws[i].x, ws[i].y>>],
   patches |-> food]

\* the end of the tick: the state after movement (ps), the herd loop (h), the
\* wolves (c: herds, wolves and the capture log) and the respawn (f) is stored
\* and, on the snapshot cadence, broadcast
TickEnd(dtMs, ps, h, c, f, born) ==
  /\ players' = ps
  /\ herds' = c.herds
  /\ wolves' = c.wolves
  /\ foodPatches' = f.food
  /\ foodRespawnTimer' = f.timer
  /\ accumSnap' = IF accumSnap + dtMs >= SNAP_MS THEN 0 ELSE accumSnap + dtMs
  /\ outbox' = IF accumSnap + dtMs >= SNAP_MS
               THEN broadcast(outbox, conns, Snapshot(ps, c.herds, order, c.wolves, f.food))
               ELSE outbox
  /\ nextUid' = IF born THEN h.uid + 1 ELSE h.uid
  /\ ev' = [kind |-> "tick", dtMs |-> dtMs, ate |-> h.log.ate, bred |-> h.log.bred,
            caps |-> c.log, born |-> born, snap |-> accumSnap + dtMs >= SNAP_MS,
            grew |-> Len(f.food) > Len(h.food), crossed |-> f.timer = 0,
            fed |-> Len(h.food),
            expired |-> Len(wolves) + (IF born THEN 1 ELSE 0) - Len(c.wolves)]
  /\ UNCHANGED <<order, conns>>

\* wolves vs sheep, then the respawn
TickWolves(dtMs, spawn, draws, samples, ps, h, targets, ws1) ==
  \E ws2 \in {WolvesFrom(ws1, DtEff(dtMs), targets, draws)} :
    \E c \in {CaptureLoop(h.herds, ws2, 1, targets, <<>>)},
       f \in {Respawn(h.food, foodRespawnTimer, dtMs, samples)} :
      TickEnd(dtMs, ps, h, c, f, Len(ws1) > Len(wolves))

TickHerds(dtMs, spawn, draws, samples, ps, h) ==
  \E targets \in {allTargetsFrom(h.herds, order, 1)}, ws1 \in {SpawnDraw(wolves, spawn, h.uid)} :
    TickWolves(dtMs, spawn, draws, samples, ps, h, targets, ws1)

\* variant of TickPlayers in which the herds follow the players as they stood
\* before the movement
TickPlayersUnmoved(dtMs, lamb, spawn, draws, samples, ps) ==
  \E h \in {UpdateHerds(herds, players, order, 1, foodPatches, dtMs, lamb, nextUid,
                         [ate |-> <<>>, bred |-> <<>>])} :
    TickHerds(dtMs, spawn, draws, samples, ps, h)

TickPlayers(dtMs, lamb, spawn, draws, samples, ps) ==
  \E h \in {UpdateHerds(herds, ps, order, 1, foodPatches, dtMs, lamb, nextUid,
                         [ate |-> <<>>, bred |-> <<>>])} :
    TickHerds(dtMs, spawn, draws, samples, ps, h)

\* one run of the setInterval callback. dtMs is now - last; lamb is the offset
\* drawn for a lamb, spawn the wolf spawn draw and its cell samples, draws the
\* per-wolf chase and drift draws, samples the cells drawn by the respawn.
Tick(dtMs, lamb, spawn, draws, samples) ==
  \E ps \in {[id \in DOMAIN players |-> MovePlayer(players[id], dtMs)]} :
    TickPlayers(dtMs, lamb, spawn, draws, samples, ps)

(* ===== the draws of Math.random() and the inputs the model enumerates ===== *)
\* cells of the top row, all pasture, far from every spawn cell used below
FarRow(n) == [k \in 1..n |-> <<k + 20, 0>>]

\* pasture cells around the east crossing's outer end
NearCells == <<<<157, 100>>, <<156, 99>>, <<158, 100>>, <<157, 99>>, <<158, 99>>, <<156, 98>>,
               <<157, 98>>, <<159, 100>>, <<158, 98>>, <<159, 99>>, <<159, 98>>, <<157, 101>>,
               <<158, 101>>, <<156, 101>>, <<159, 101>>>>

\* sample lists for the initial scatter: the cells in the order drawn
InitFoodSamples ==
  {NearCells \o FarRow(FOOD_PATCH_COUNT - Len(NearCells)),
   FarRow(FOOD_PATCH_COUNT - Len(NearCells)) \o NearCells}

Init ==
  /\ players = <<>>
  /\ herds = <<>>
  /\ order = <<>>
  /\ wolves = <<>>
  /\ \E samples \in InitFoodSamples : foodPatches = createFoodPatches(FOOD_PATCH_COUNT, samples)
  /\ foodRespawnTimer = 0
  /\ accumSnap = 0
  /\ conns = <<>>
  /\ outbox = <<>>
  /\ nextUid = 1
  /\ ticks = 0
  /\ ev = NoEv

(* ===== the bounded specification ===== *)
\* ticks run in a behaviour
MaxTicks == 310
\* sockets accepted in a behaviour
MaxConns == 1
\* connections, messages, closes and successful spawn draws all happen before
\* this many ticks have run
SetupTicks == 2

\* socket ids drawn by Math.random().toString(36).slice(2, 10)
IdDraws == {<<"k", "3", "x", "9", "q", "0", "a", "7">>}

\* 2000 samples that all miss the pasture
MissPasture == [g \in 1..2000 |-> <<cx, cy>>]

\* 1000 samples that all miss glen and dark
MissHostile == [g \in 1..1000 |-> <<0, 0>>]

\* the samples drawn by spawnOnPasture: a pasture cell by the east crossing
\* after two misses, or misses only
SpawnDraws == {<<<<cx, cy>>, <<150, 100>>, <<156, 100>>>>, MissPasture}

\* the two offsets drawn by ensureHerd, and the one of a lamb
OffsetDraws == {<<<<20, 0>>, <<0, -24>>>>}
LambDraws == {<<-20, 0>>}

\* the spawn draw of updateWolves: the 5% draw and the cells sampled
NoSpawn == [hit |-> FALSE, samples |-> <<>>]
SpawnHits == {[hit |-> TRUE, samples |-> <<<<156, 100>>, <<134, 85>>>>],
              [hit |-> TRUE, samples |-> <<<<156, 100>>, <<134, 115>>>>],
              [hit |-> TRUE, samples |-> MissHostile]}

\* the per-wolf draws: the 90% chase draw and the drift vector (in 1/100 pixel)
WolfDraws == {[chase |-> TRUE, drift |-> <<150, -80>>]}

Range(seq) == {seq[i] : i \in 1..Len(seq)}

\* the cells sampled by a respawn. A far cell that holds no patch, after one miss:
FreshIn(held) ==
  <<<<cx, cy>>, <<20 + Lowest({k \in 1..(FOOD_PATCH_COUNT + 1) : <<k + 20, 0>> \notin held}), 0>>>>

FreshDraw(food) == Only({FreshIn(held) : held \in {Range(food)}})

\* a cell that holds a patch whenever the scatter is not empty, or 50 misses
StaleDraw(food) == IF food = <<>> THEN <<<<21, 0>>>> ELSE <<food[Len(food)]>>
MissDraw == [g \in 1..50 |-> <<cx, cy>>]

\* the draws of a respawn vary before this many ticks have run; later ones
\* hit a free cell
VaryTicks == 16

RespawnDraws(food) ==
  {FreshDraw(food)} \cup (IF ticks < VaryTicks THEN {StaleDraw(food), MissDraw} ELSE {})

\* elapsed time between two runs of the tick
DtDraws == {TICK_MS}

\* received buffers
InputMsg(set) == [kind |-> "object", type |-> "input", nameIsStr |-> FALSE, name |-> <<>>,
                  heldTruthy |-> TRUE, held |-> set]
Messages == {InputMsg({"left"})}

Setup == ticks < SetupTicks

DoConnect ==
  /\ Setup /\ Len(conns) < MaxConns
  /\ \E id \in IdDraws, samples \in SpawnDraws, offs \in OffsetDraws : Connect(id, samples, offs)
  /\ ticks' = ticks

DoMessage ==
  /\ Setup
  /\ \E c \in 1..Len(conns), m \in Messages :
       /\ conns[c].open
       /\ HeldOf(m.held) # conns[c].held
       /\ OnMessage(c, m)
  /\ ticks' = ticks

DoClose ==
  /\ Setup
  /\ \E c \in 1..Len(conns) : Close(c)
  /\ ticks' = ticks

DoTick ==
  /\ ticks < MaxTicks
  /\ \E dtMs \in DtDraws, lamb \in LambDraws, samples \in RespawnDraws(foodPatches),
        spawn \in {NoSpawn} \cup (IF Setup THEN SpawnHits ELSE {}) :
       \E draws \in [1..(Len(wolves) + 1) -> WolfDraws] : Tick(dtMs, lamb, spawn, draws, samples)
  /\ ticks' = ticks + 1

Next == DoConnect \/ DoMessage \/ DoClose \/ DoTick

Spec == Init /\ [][Next]_vars

(* ===== the unbounded specification, with the scheduling made explicit ===== *)
\* ticks a connected player may stay without input before its input is handled
IdleTicks == 2

\* sockets connect and close before the first tick, and the interval callback
\* runs while no player has idled past IdleTicks
Early == ev.kind # "tick"
Prompt == \A id \in DOMAIN players :
            Moving(players[id]) \/ players[id].moveCooldown > 0 - IdleTicks * TICK_MS

FairConnect ==
  /\ Early /\ Len(conns) < MaxConns
  /\ \E id \in IdDraws, samples \in SpawnDraws, offs \in OffsetDraws : Connect(id, samples, offs)

FairMessage ==
  \E c \in 1..Len(conns), m \in Messages :
    /\ conns[c].open
    /\ HeldOf(m.held) # conns[c].held
    /\ OnMessage(c, m)

FairClose == Early /\ \E c \in 1..Len(conns) : Close(c)

\* a tick without a wolf spawn, whatever the respawn samples
FairTick ==
  /\ Prompt
  /\ \E dtMs \in DtDraws, lamb \in LambDraws, samples \in RespawnDraws(foodPatches) :
       Tick(dtMs, lamb, NoSpawn, <<>>, samples)
  /\ ticks' = ticks

\* a tick on which the respawn timer crosses and the sample is a free pasture cell
FreshTick ==
  /\ Prompt
  /\ foodRespawnTimer + TICK_MS >= FOOD_RESPAWN_EVERY_MS
  /\ \E lamb \in LambDraws : Tick(TICK_MS, lamb, NoSpawn, <<>>, FreshDraw(foodPatches))
  /\ ticks' = ticks

FairNext == FairConnect \/ FairMessage \/ FairClose \/ FairTick

\* setInterval keeps firing, a received message is dispatched, and the sampling
\* is fair: a respawn that is tried again and again draws a free pasture cell
FairSpec ==
  /\ Init /\ [][FairNext]_vars
  /\ WF_vars(FairTick) /\ WF_vars(FairMessage) /\ SF_vars(FreshTick)


(* ===== the specification of the message and movement handlers ===== *)
\* sockets accepted, and ticks run, in a behaviour of InputSpec
InMaxConns == 2
InMaxTicks == 2
\* sockets connect, send and close before this many ticks have run
InSetupTicks == 1

\* the socket ids the n-th socket may draw: the second may draw the id of the first
InIdDraws(n) ==
  IF n = 1 THEN {<<"k", "3", "x", "9", "q", "0", "a", "7">>}
  ELSE {<<"k", "3", "x", "9", "q", "0", "a", "7">>, <<"z", "1">>}

\* the samples of spawnOnPasture for the n-th socket: a pasture cell next to
\* non-crossing water, a pasture cell in the corner of the grid, or misses only
InSpawnDraws(n) ==
  IF n = 1 THEN {<<<<155, 99>>>>, <<<<cx, cy>>, <<199, 199>>>>, MissPasture}
  ELSE {<<<<155, 99>>>>}

\* a name longer than the cap, with blanks around it
LongName == <<" ">> \o [i \in 1..26 |-> IF i = 3 THEN " " ELSE "n"] \o <<" ", " ">>

\* a received buffer: how it parses (kind), and for an object its type, its
\* name and its held value
Buf(kind, type, nameIsStr, name, heldTruthy, held) ==
  [kind |-> kind, type |-> type, nameIsStr |-> nameIsStr, name |-> name,
   heldTruthy |-> heldTruthy, held |-> held]

\* buffers JSON.parse rejects, values that are not objects, objects of an
\* unknown type, joins and inputs without the value they need
BadMessages ==
  {Buf("unparseable", Null, FALSE, <<>>, FALSE, {}),
   Buf("primitive", Null, FALSE, <<>>, FALSE, {}),
   Buf("object", "ping", TRUE, <<"A", "l">>, TRUE, {"up"}),
   Buf("object", "join", FALSE, <<>>, TRUE, {"up"}),
   Buf("object", "join", TRUE, <<" ", " ">>, FALSE, {}),
   Buf("object", "input", TRUE, <<"A", "l">>, FALSE, {})}

JoinMessages == {Buf("object", "join", TRUE, LongName, FALSE, {})}

InputMessages ==
  {Buf("object", "input", FALSE, <<>>, TRUE, set) : set \in {{}, {"down", "left"}, {"left", "right"}}}

InMessages == BadMessages \cup JoinMessages \cup InputMessages

\* the initial scatter of InputSpec: one order of the samples
InInit == Init /\ foodPatches[1] = NearCells[1]

InSetup == ticks < InSetupTicks

InConnect ==
  /\ InSetup /\ Len(conns) < InMaxConns
  /\ \E id \in InIdDraws(Len(conns) + 1), samples \in InSpawnDraws(Len(conns) + 1),
        offs \in OffsetDraws : Connect(id, samples, offs)
  /\ ticks' = ticks

\* a message event of any socket, a closed one included
InMessage ==
  /\ InSetup
  /\ \E c \in 1..Len(conns), m \in InMessages : OnMessage(c, m)
  /\ ticks' = ticks

InClose ==
  /\ InSetup
  /\ \E c \in 1..Len(conns) : Close(c)
  /\ ticks' = ticks

\* the spawn draw of a tick: a wolf may be drawn once the setup is over
InSpawnHits == IF InSetup THEN {NoSpawn} ELSE {NoSpawn, [hit |-> TRUE, samples |-> <<<<134, 85>>>>]}

InTick ==
  /\ ticks < InMaxTicks
  /\ \E lamb \in LambDraws, spawn \in InSpawnHits :
       \E draws \in [1..(Len(wolves) + 1) -> WolfDraws] :
         Tick(TICK_MS, lamb, spawn, draws, FreshDraw(foodPatches))
  /\ ticks' = ticks + 1

InNext == InConnect \/ InMessage \/ InClose \/ InTick

InputSpec == InInit /\ [][InNext]_vars


(* ===== the movement cadence applied to two runs of one player ===== *)
\* elapsed time each run covers
MaxSpan == 600

\* the durations a tick may have: half the interval, the interval, or twice
\* the interval when a timer fires late
StepDts == {TICK_MS \div 2, TICK_MS, 2 * TICK_MS}

\* a freshly connected player and a direction it holds that stays passable
\* over MaxSpan: along the top row, or up the pasture east of the water
StepDraws == {[cell |-> <<30, 0>>, held |-> {"right"}],
              [cell |-> <<155, 99>>, held |-> {"up", "left"}]}

\* both runs start from the same player; ev keeps the time each run has covered
StepInit ==
  /\ \E d \in StepDraws, id \in IdDraws :
       players = [r \in {"A", "B"} |->
                    [id |-> id, name |-> DefaultName(id), x |-> d.cell[1], y |-> d.cell[2],
                     held |-> HeldOf(d.held), moveCooldown |-> 0, conn |-> 1]]
  /\ herds = <<>> /\ order = <<>> /\ wolves = <<>>
  /\ foodPatches = createFoodPatches(FOOD_PATCH_COUNT, FarRow(FOOD_PATCH_COUNT))
  /\ foodRespawnTimer = 0 /\ accumSnap = 0
  /\ conns = <<>> /\ outbox = <<>>
  /\ nextUid = 1 /\ ticks = 0
  /\ ev = [kind |-> "step", elapsed |-> [r \in {"A", "B"} |-> 0]]

\* the player movement block of one tick of duration dtMs, in run r
StepRun(r, dtMs) ==
  /\ ev.elapsed[r] + dtMs <= MaxSpan
  /\ players' = [players EXCEPT ![r] = MovePlayer(@, dtMs)]
  /\ ev' = [ev EXCEPT !.elapsed[r] = @ + dtMs]
  /\ UNCHANGED <<herds, order, wolves, foodPatches, foodRespawnTimer, accumSnap, conns,
                 outbox, nextUid, ticks>>

StepA == \E dtMs \in StepDts : StepRun("A", dtMs)
StepB == \E dtMs \in StepDts : StepRun("B", dtMs)

StepNext == StepA \/ StepB

StepSpec == StepInit /\ [][StepNext]_vars

(* ===== the band computation over world sides ===== *)
\* the smallest side for which the four bands are told apart, and the largest
\* side computed
MinSide == 14
MaxSide == 520

\* lines 15-34 run for a world of side n
BandsOf(n) ==
  Only({[kind |-> "bands", n |-> n, cx |-> n \div 2, maxR |-> m, widths |-> BandWidths(m),
         edges |-> EdgesOf(m)] : m \in {Min(n \div 2, n \div 2) - 1}})

BandInit ==
  /\ ev = BandsOf(0)
  /\ players = <<>> /\ herds = <<>> /\ order = <<>> /\ wolves = <<>>
  /\ foodPatches = <<>> /\ foodRespawnTimer = 0 /\ accumSnap = 0
  /\ conns = <<>> /\ outbox = <<>> /\ nextUid = 1 /\ ticks = 0

BandStep ==
  /\ ev.n < MaxSide
  /\ ev' = BandsOf(ev.n + 1)
  /\ UNCHANGED <<players, herds, order, wolves, foodPatches, foodRespawnTimer, accumSnap,
                 conns, outbox, nextUid, ticks>>

BandSpec == BandInit /\ [][BandStep]_vars

(* ===== the terrain over the cells of the world ===== *)
\* ringAt, bridgeSet and canWalk applied to the cell (x, y)
CellOf(x, y) ==
  [kind |-> "cell", x |-> x, y |-> y, ring |-> ringAt(x, y), bridge |-> <<x, y>> \in bridgeSet,
   walk |-> canWalk(x, y)]

CellInit ==
  /\ ev = CellOf(0, 0)
  /\ players = <<>> /\ herds = <<>> /\ order = <<>> /\ wolves = <<>>
  /\ foodPatches = <<>> /\ foodRespawnTimer = 0 /\ accumSnap = 0
  /\ conns = <<>> /\ outbox = <<>> /\ nextUid = 1 /\ ticks = 0

CellEast ==
  /\ ev.x < WORLD - 1
  /\ ev' = CellOf(ev.x + 1, ev.y)
  /\ UNCHANGED <<players, herds, order, wolves, foodPatches, foodRespawnTimer, accumSnap,
                 conns, outbox, nextUid, ticks>>

CellSouth ==
  /\ ev.y < WORLD - 1
  /\ ev' = CellOf(ev.x, ev.y + 1)
  /\ UNCHANGED <<players, herds, order, wolves, foodPatches, foodRespawnTimer, accumSnap,
                 conns, outbox, nextUid, ticks>>

CellNext == CellEast \/ CellSouth

CellSpec == CellInit /\ [][CellNext]_vars

(* ===== the placement loops on their own ===== *)
\* k samples off the pasture, then a pasture cell drawn twice and another one
FoodSamples(k, a, b) == [g \in 1..k |-> <<cx, cy>>] \o <<a, a, b>>

\* k samples on the pasture, then a glen cell
WolfSamples(k) == [g \in 1..k |-> <<0, 0>>] \o <<<<134, 85>>>>

\* the initial scatter asks for few patches, or for all of them
PlaceInit ==
  /\ \E n \in {0, 2}, k \in {0, 2 * 50 - 2, 2 * 50 - 1, 2 * 50} :
       \E samples \in {FoodSamples(k, <<30, 1>>, <<31, 1>>), FarRow(FOOD_PATCH_COUNT)} :
         \E m \in {IF Len(samples) = FOOD_PATCH_COUNT THEN FOOD_PATCH_COUNT ELSE n} :
           /\ foodPatches = createFoodPatches(m, samples)
           /\ ev = [kind |-> "scatter", n |-> m, samples |-> samples]
  /\ players = <<>> /\ herds = <<>> /\ order = <<>> /\ wolves = <<>>
  /\ foodRespawnTimer = 0 /\ accumSnap = 0
  /\ conns = <<>> /\ outbox = <<>> /\ nextUid = 1 /\ ticks = 0

\* the respawn block of a tick
PlaceRespawn ==
  /\ \E dtMs \in {FOOD_RESPAWN_EVERY_MS \div 2, FOOD_RESPAWN_EVERY_MS}, k \in {0, 49, 50},
        a \in {<<30, 1>>, <<40, 1>>} :
       \E samples \in {FoodSamples(k, a, <<31, 1>>)} :
         \E f \in {Respawn(foodPatches, foodRespawnTimer, dtMs, samples)} :
           /\ foodPatches' = f.food
           /\ foodRespawnTimer' = f.timer
           /\ ev' = [kind |-> "respawn", crossed |-> f.timer = 0, samples |-> samples]
  /\ UNCHANGED <<players, herds, order, wolves, accumSnap, conns, outbox, nextUid, ticks>>

\* the spawn draw of updateWolves
PlaceSpawn ==
  /\ \E hit \in BOOLEAN, k \in {0, 999, 1000} :
       \E samples \in {WolfSamples(k)} :
         \E ws \in {SpawnDraw(wolves, [hit |-> hit, samples |-> samples], nextUid)} :
           /\ wolves' = ws
           /\ nextUid' = IF Len(ws) > Len(wolves) THEN nextUid + 1 ELSE nextUid
           /\ ev' = [kind |-> "spawn", hit |-> hit, samples |-> samples]
  /\ UNCHANGED <<players, herds, order, foodPatches, foodRespawnTimer, accumSnap, conns,
                 outbox, ticks>>

PlaceNext == PlaceRespawn \/ PlaceSpawn

PlaceSpec == PlaceInit /\ [][PlaceNext]_vars

(* ===== the wolf pack over its whole lifetime ===== *)
\* the 5% draw may hit in the first PackSetupTicks ticks and again from tick
\* PackLate on, when the first wolves have run out of lifetime
PackSetupTicks == 7
PackLate == 302
PackMaxTicks == 308

PackSpawns ==
  IF ticks < PackSetupTicks \/ ticks >= PackLate
  THEN {NoSpawn, [hit |-> TRUE, samples |-> <<<<134, 85>>>>], [hit |-> TRUE, samples |-> MissHostile]}
  ELSE {NoSpawn}

PackTick ==
  /\ ticks < PackMaxTicks
  /\ \E lamb \in LambDraws, spawn \in PackSpawns :
       \E draws \in [1..(Len(wolves) + 1) -> WolfDraws] :
         Tick(TICK_MS, lamb, spawn, draws, FreshDraw(foodPatches))
  /\ ticks' = ticks + 1

PackSpec == InInit /\ [][PackTick]_vars

(* ===== one player walking over the terrain ===== *)
\* the player of a walk on the cell (x, y), ready to step, holding the keys of set
Walker(x, y, set) ==
  [id |-> <<"w">>, name |-> <<"w">>, x |-> x, y |-> y, held |-> HeldOf(set),
   moveCooldown |-> 0, conn |-> 1]

\* the key of a walk that leaves the columns of the water band, goes to the
\* row of the east and west crossings and follows it towards the centre
WalkKey(x, y) ==
  IF y = cy THEN (IF x > cx THEN "left" ELSE "right")
  ELSE IF ringAt(x, cy) = "pasture" THEN (IF y > cy THEN "up" ELSE "down")
  ELSE IF x >= cx THEN "right" ELSE "left"

\* where the walk stands, and whether its keys are those of WalkKey
WalkOf(x, y, guided) ==
  [kind |-> "walk", x |-> x, y |-> y, ring |-> ringAt(x, y), guided |-> guided]

\* the walk starts on any cell spawnOnPasture can return
WalkInit ==
  /\ \E x \in 0..(WORLD - 1), y \in 0..(WORLD - 1), guided \in BOOLEAN :
       /\ ringAt(x, y) = "pasture"
       /\ ev = WalkOf(x, y, guided)
  /\ players = <<>> /\ herds = <<>> /\ order = <<>> /\ wolves = <<>>
  /\ foodPatches = <<>> /\ foodRespawnTimer = 0 /\ accumSnap = 0
  /\ conns = <<>> /\ outbox = <<>> /\ nextUid = 1 /\ ticks = 0

\* the player holds any one key during one tick
WalkStep ==
  /\ ~ev.guided
  /\ \E key \in {"up", "down", "left", "right"} :
       \E p \in {MovePlayer(Walker(ev.x, ev.y, {key}), TICK_MS)} :
         ev' = WalkOf(p.x, p.y, FALSE)
  /\ UNCHANGED <<players, herds, order, wolves, foodPatches, foodRespawnTimer, accumSnap,
                 conns, outbox, nextUid, ticks>>

\* the player holds the key of WalkKey during one tick, until it is on the glen
WalkGuided ==
  /\ ev.guided /\ ev.ring # "glen"
  /\ \E p \in {MovePlayer(Walker(ev.x, ev.y, {WalkKey(ev.x, ev.y)}), TICK_MS)} :
       ev' = WalkOf(p.x, p.y, TRUE)
  /\ UNCHANGED <<players, herds, order, wolves, foodPatches, foodRespawnTimer, accumSnap,
                 conns, outbox, nextUid, ticks>>

WalkNext == WalkStep \/ WalkGuided

\* the tick timer keeps firing
WalkSpec == WalkInit /\ [][WalkNext]_vars /\ WF_vars(WalkGuided)

(* ===== the client's herd renderers (client main.js) ===== *)
\* ensureHerd(id) of the client: a manager without sheep unless there is one
clientEnsureHerd(view, id) == IF id \in DOMAIN view THEN view ELSE MapSet(view, id, <<>>)

\* applyHerdSnapshot(mgr, snap): the list is grown or popped to the length of
\* snap, then every sheep takes the tuple's values and stands still
applyHerdSnapshot(list, snap) ==
  [i \in 1..Len(snap) |-> [x |-> snap[i][1], y |-> snap[i][2], full |-> snap[i][3],
                           cd |-> snap[i][4], vx |-> 0, vy |-> 0]]

\* the herds part of the net.onSnapshot handler: a manager for each of the
\* first k players and for each key of snap.herds, filled from snap.herds
RECURSIVE onSnapshotPlayers(_, _, _)
onSnapshotPlayers(view, snap, k) ==
  IF k = 0 THEN view
  ELSE clientEnsureHerd(onSnapshotPlayers(view, snap, k - 1), snap.players[k].id)

onSnapshot(view, snap) ==
  LET seen == onSnapshotPlayers(view, snap, Len(snap.players))
  IN [id \in DOMAIN seen \cup DOMAIN snap.herds |->
        IF id \in DOMAIN snap.herds
        THEN applyHerdSnapshot(IF id \in DOMAIN seen THEN seen[id] ELSE <<>>, snap.herds[id])
        ELSE seen[id]]

\* largest flock in a snapshot the client is sent
ClientMaxFlock == 5

\* the snapshots of the registries that hold the players of ids and a flock
\* of 1..ClientMaxFlock sheep for each
ClientSnapsOf(ids) ==
  {Snapshot([id \in ids |-> [id |-> id, name |-> DefaultName(id), x |-> 156, y |-> 100,
                              held |-> NoHeld, moveCooldown |-> 0, conn |-> 1]],
            [id \in ids |-> [i \in 1..size[id] |->
                               NewSheep(156 * TILE + TILE \div 2, 100 * TILE + TILE \div 2,
                                        <<20 * i, 0>>, i)]],
            CHOOSE ord \in [1..Cardinality(ids) -> ids] : Range(ord) = ids,
            <<>>, <<>>) : size \in [ids -> 1..ClientMaxFlock]}

ClientSnaps == UNION {ClientSnapsOf(ids) : ids \in SUBSET InIdDraws(2)}

ClientInit ==
  /\ ev = [kind |-> "client", herds |-> <<>>, snap |-> Snapshot(<<>>, <<>>, <<>>, <<>>, <<>>)]
  /\ players = <<>> /\ herds = <<>> /\ order = <<>> /\ wolves = <<>>
  /\ foodPatches = <<>> /\ foodRespawnTimer = 0 /\ accumSnap = 0
  /\ conns = <<>> /\ outbox = <<>> /\ nextUid = 1 /\ ticks = 0

\* a snapshot arrives and is applied; the snapshots between two arrivals
\* may have been dropped
ClientApply ==
  /\ \E snap \in ClientSnaps :
       ev' = [kind |-> "client", herds |-> onSnapshot(ev.herds, snap), snap |-> snap]
  /\ UNCHANGED <<players, herds, order, wolves, foodPatches, foodRespawnTimer, accumSnap,
                 conns, outbox, nextUid, ticks>>

ClientSpec == ClientInit /\ [][ClientApply]_vars

(* ===== properties ===== *)
\* C1: after any sequence of connections, inputs, disconnections and ticks,
\* every player's cell is inside the grid, is not a dark (hostile band) cell,
\* and is a water cell only if it is in the bridge set.
C1_PlayersOnPassableCells ==
  \A id \in DOMAIN players :
    /\ InGrid(players[id].x, players[id].y)
    /\ ringAt(players[id].x, players[id].y) # "dark"
    /\ ringAt(players[id].x, players[id].y) = "water"
         => <<players[id].x, players[id].y>> \in bridgeSet

\* C2: the cell given to a player by the connection handler is passable for
\* every outcome of spawnOnPasture, the exhausted retry budget included: the
\* state right after a connection has the new player inside the grid, off the
\* dark band and off non-bridge water.
C2_SpawnCellPassable ==
  ev.kind = "connect" =>
    LET p == players[conns[ev.conn].id]
    IN /\ 0 <= p.x /\ p.x < WORLD /\ 0 <= p.y /\ p.y < WORLD
       /\ ringAt(p.x, p.y) \in {"pasture", "glen"} \/ <<p.x, p.y>> \in bridgeSet

\* C3: in every reachable state each sheep's satiety is an integer in
\* 0..MEALS_TO_BREED and its breeding cooldown is at least 0.
C3_SatietyAndCooldownInRange ==
  \A id \in DOMAIN herds : \A i \in 1..Len(herds[id]) :
    /\ herds[id][i].full \in 0..MEALS_TO_BREED
    /\ herds[id][i].cd \in Nat

\* a flock of three or more after a breed: one sheep is full, one is cooling down
C3_Witness ==
  \E id \in DOMAIN herds :
    /\ Len(herds[id]) >= 3
    /\ \E i \in 1..Len(herds[id]) : herds[id][i].full = MEALS_TO_BREED
    /\ \E i \in 1..Len(herds[id]) : herds[id][i].cd > 0 /\ herds[id][i].cd < BREED_COOLDOWN_MS

\* C4: in a tick where a herd has k >= 2 sheep at full satiety with zero
\* cooldown, the first two of them in herd order are reset to satiety 0 and
\* cooldown BREED_COOLDOWN_MS, exactly one new sheep (satiety 0, cooldown 0) is
\* appended and every other sheep is left as it was, for every k; with k < 2 the
\* breed block leaves the herd unchanged.
C4_BreedResetsTwoAddsOne ==
  ev.kind = "tick" =>
    \A k \in 1..Len(ev.bred) :
      LET b == ev.bred[k].before
          a == ev.bred[k].after
          q == {i \in 1..Len(b) : b[i].full >= MEALS_TO_BREED /\ b[i].cd = 0}
          first == Lowest(q)
          second == Lowest(q \ {first})
      IN IF Cardinality(q) >= 2
         THEN /\ Len(a) = Len(b) + 1
              /\ \A i \in {first, second} :
                   a[i] = [b[i] EXCEPT !.full = 0, !.cd = BREED_COOLDOWN_MS]
              /\ \A i \in (1..Len(b)) \ {first, second} : a[i] = b[i]
              /\ a[Len(a)].full = 0 /\ a[Len(a)].cd = 0
         ELSE a = b

\* a breed with three or more qualifying sheep
C4_Witness ==
  /\ ev.kind = "tick"
  /\ \E k \in 1..Len(ev.bred) :
       /\ Cardinality({i \in 1..Len(ev.bred[k].before) :
                         /\ ev.bred[k].before[i].full >= MEALS_TO_BREED
                         /\ ev.bred[k].before[i].cd = 0}) >= 3
       /\ Len(ev.bred[k].after) = Len(ev.bred[k].before) + 1

\* C5: a wolf's remaining lifetime strictly decreases on every tick in which
\* it exists, the wolf is removed in the tick its lifetime reaches zero or
\* below (no state holds a wolf without lifetime left), and no wolf is seen
\* after WOLF_LIFE_MS / TICK_MS ticks. On a tick, a wolf that is kept has less
\* lifetime than before, and a wolf that is dropped had run out.
C5_LifetimeCountsDown ==
  /\ [](\A i \in 1..Len(wolves) :
          wolves[i].life > 0 /\ wolves[i].age < WOLF_LIFE_MS \div TICK_MS)
  /\ [][ev'.kind = "tick" =>
          \A j \in 1..Len(wolves) :
            \/ \E i \in 1..Len(wolves') :
                 wolves'[i].uid = wolves[j].uid /\ wolves'[i].life < wolves[j].life
            \/ /\ \A i \in 1..Len(wolves') : wolves'[i].uid # wolves[j].uid
               /\ wolves[j].life - TICK_MS <= 0]_vars

\* a tick on which a wolf ran out of lifetime and was removed
C5_Witness == ev.kind = "tick" /\ ev.expired > 0

\* C6: when a wolf's distance check against a sheep succeeds in a tick, that
\* sheep is absent from its herd at the end of the tick; and when the tick had
\* one wolf and the herd one sheep, the herd has one sheep fewer.
C6_CapturedAnimalGone ==
  ev.kind = "tick" =>
    \A k \in 1..Len(ev.caps) :
      ev.caps[k].herdId \in DOMAIN herds =>
        /\ \A i \in 1..Len(herds[ev.caps[k].herdId]) :
             herds[ev.caps[k].herdId][i].uid # ev.caps[k].checked
        /\ (Len(wolves) = 1 /\ Len(ev.bred) = 1 /\ Len(ev.bred[1].after) = 1)
             => herds[ev.caps[k].herdId] = <<>>

\* C7: over its whole existence a wolf captures at most one sheep.
C7_AtMostOneCapture == \A i \in 1..Len(wolves) : wolves[i].caught <= 1

\* C8: the number of food patches never exceeds FOOD_PATCH_COUNT.
C8_PatchCountBounded ==
  /\ Len(foodPatches) <= FOOD_PATCH_COUNT
  /\ Cardinality(Range(foodPatches)) = Len(foodPatches)

\* a respawn that fills the last free slot
C8_Witness ==
  ev.kind = "tick" /\ ev.crossed /\ ev.grew /\ Len(foodPatches) = FOOD_PATCH_COUNT

C10_RespawnAddsExactlyOne ==
  (ev.kind = "tick" /\ ev.crossed) =>
    /\ foodRespawnTimer = 0
    /\ ev.fed < FOOD_PATCH_COUNT => Len(foodPatches) = ev.fed + 1

\* C11: every food patch in the food set, from the initial scatter or from a
\* respawn, is a cell inside the grid that ringAt classifies as pasture.
C11_PatchesOnPasture ==
  \A i \in 1..Len(foodPatches) :
    /\ InGrid(foodPatches[i][1], foodPatches[i][2])
    /\ ringAt(foodPatches[i][1], foodPatches[i][2]) = "pasture"

\* a respawn has added a patch to a set that is still below the target
C11_Witness ==
  ev.kind = "tick" /\ ev.grew /\ Len(foodPatches) < FOOD_PATCH_COUNT

C14_OneDirectionPerStep ==
  [][ev'.kind = "tick" =>
       \A id \in DOMAIN players :
         LET p == players[id]
             dx == players'[id].x - p.x
             dy == players'[id].y - p.y
         IN /\ <<dx, dy>> \in {<<0, 0>>, <<0, 0 - 1>>, <<0, 1>>, <<0 - 1, 0>>, <<1, 0>>}
            /\ <<dx, dy>> # <<0, 0>> =>
                 <<dx, dy>> = (IF p.held.up THEN <<0, 0 - 1>>
                               ELSE IF p.held.down THEN <<0, 1>>
                               ELSE IF p.held.left THEN <<0 - 1, 0>>
                               ELSE <<1, 0>>)]_vars

\* a player holding down and left at once, with the cell down-left of its
\* spawn cell on a crossing, has gone two cells down and none left
C14_Witness ==
  /\ ev.kind = "tick"
  /\ \E id \in DOMAIN players :
       /\ players[id].held.down /\ players[id].held.left
       /\ <<players[id].x, players[id].y>> = <<155, 101>>

\* C15: two runs of the same player holding the same passable direction that
\* have covered the same elapsed time have advanced the same number of cells,
\* however each run's time was divided into ticks.
C15_StepsIndependentOfTickDuration ==
  (ev.kind = "step" /\ ev.elapsed["A"] = ev.elapsed["B"])
    => /\ players["A"].x = players["B"].x
       /\ players["A"].y = players["B"].y

\* C16: in every reachable state the herd owners are exactly the player ids
\* (and the registry's key order lists exactly them): every player has one
\* herd and no herd is without its player, across connect, close and tick.
C16_HerdOwnersArePlayers ==
  /\ DOMAIN herds = DOMAIN players
  /\ Range(order) = DOMAIN players
  /\ \A i, j \in 1..Len(order) : order[i] = order[j] => i = j

\* a tick has run after the first of two sockets closed: the second socket's
\* player and herd are the only ones
C16_Witness ==
  /\ ev.kind = "tick" /\ Len(conns) = 2
  /\ ~conns[1].open /\ conns[2].open
  /\ DOMAIN players = {conns[2].id}
  /\ Len(herds[conns[2].id]) = 2

\* C17: a close removes the socket's player and herd; no player created by a
\* closed socket is in the registry; a message handled for a closed socket
\* creates no player and no herd; a tick creates no player and no herd, and the
\* snapshot it broadcasts lists exactly the players and herds then present.
C17_ClosedStaysRemoved ==
  /\ [](\A id \in DOMAIN players : conns[players[id].conn].open)
  /\ [][/\ ev'.kind = "close" =>
             /\ conns[ev'.conn].id \notin DOMAIN players'
             /\ conns[ev'.conn].id \notin DOMAIN herds'
        /\ (ev'.kind = "message" /\ ~conns[ev'.conn].open) =>
             /\ DOMAIN players' = DOMAIN players
             /\ DOMAIN herds' = DOMAIN herds
             /\ herds' = herds
             /\ \A id \in DOMAIN players : players'[id].conn = players[id].conn
        /\ ev'.kind = "tick" =>
             /\ DOMAIN players' = DOMAIN players
             /\ DOMAIN herds' = DOMAIN herds
             /\ \A c \in 1..Len(conns) :
                  (ev'.snap /\ conns[c].open) =>
                    /\ {q.id : q \in Range(outbox'[c].last.players)} = DOMAIN players'
                    /\ DOMAIN outbox'[c].last.herds = DOMAIN herds']_vars

\* a join with a usable name was handled for a closed socket whose id has no
\* player and no herd
C17_Witness ==
  /\ ev.kind = "message" /\ ev.join
  /\ ~conns[ev.conn].open
  /\ conns[ev.conn].id \notin DOMAIN players
  /\ conns[ev.conn].id \notin DOMAIN herds

\* C18: a message that does not parse, is not an object, has an unknown type,
\* is a join without a non-blank string name, or is an input without a held
\* value leaves players, herds, wolves and food unchanged and closes no socket.
C18_MalformedMessageIgnored ==
  [][LET m == ev'.msg
         blank == \A i \in 1..Len(m.name) : m.name[i] = " "
         malformed == \/ m.kind # "object"
                      \/ m.type \notin {"join", "input"}
                      \/ m.type = "join" /\ (~m.nameIsStr \/ blank)
                      \/ m.type = "input" /\ ~m.heldTruthy
     IN (ev'.kind = "message" /\ malformed) =>
          /\ UNCHANGED <<players, herds, wolves, foodPatches>>
          /\ \A c \in 1..Len(conns) : conns'[c].open = conns[c].open]_vars

\* a join whose name is a blank string was handled for an open socket whose
\* player already has a name of its own and a held direction
C18_Witness ==
  /\ ev.kind = "message" /\ ev.msg.type = "join" /\ ev.msg.nameIsStr /\ ~ev.join
  /\ conns[ev.conn].open
  /\ conns[ev.conn].id \in DOMAIN players
  /\ players[conns[ev.conn].id].name # DefaultName(conns[ev.conn].id)
  /\ players[conns[ev.conn].id].held.down

\* C19: a player's held flags equal the flags of the most recent input message
\* of the socket that created it (ws.held, all false before any such message).
C19_HeldIsLastInputOfOwnSocket ==
  \A id \in DOMAIN players : players[id].held = conns[players[id].conn].held

\* C20: a join with a non-blank string name sets the player's name to that
\* name without its leading and trailing blanks, cut to its first 24
\* characters, and changes nothing else; every player's name is 1 to 24
\* characters long in every reachable state.
C20_JoinSetsTrimmedCappedName ==
  /\ [](\A id \in DOMAIN players : Len(players[id].name) \in 1..24)
  /\ [][LET m == ev'.msg
             inked == {i \in 1..Len(m.name) : m.name[i] # " "}
             first == Lowest(inked)
             last == CHOOSE i \in inked : \A j \in inked : j <= i
             id == conns[ev'.conn].id
         IN (ev'.kind = "message" /\ m.kind = "object" /\ m.type = "join"
               /\ m.nameIsStr /\ inked # {}) =>
              /\ id \in DOMAIN players =>
                   players' = [players EXCEPT ![id].name =
                                 SubSeq(m.name, first, Min(last, first + 23))]
              /\ id \notin DOMAIN players => players' = players
              /\ UNCHANGED <<herds, order, wolves, foodPatches, foodRespawnTimer, accumSnap,
                             outbox>>
              /\ conns' = [conns EXCEPT ![ev'.conn].name = conns'[ev'.conn].name]]_vars

\* a join with a name longer than the cap was handled and the player carries
\* 24 characters of it
C20_Witness ==
  /\ ev.kind = "message" /\ ev.join /\ Len(ev.msg.name) > 24
  /\ conns[ev.conn].id \in DOMAIN players
  /\ Len(players[conns[ev.conn].id].name) = 24
  /\ players[conns[ev.conn].id].name[1] = "n"

\* C21: every connection is sent exactly one hello, carrying its player id and
\* name, at connect, so that the hello comes before any snapshot sent to it
C21_OneHelloBeforeSnapshots ==
  /\ [](\A c \in 1..Len(conns) : outbox[c].hellos = 1 /\ outbox[c].first = "hello")
  /\ [][/\ \A c \in 1..Len(conns) : outbox'[c].hellos = outbox[c].hellos
        /\ ev'.kind = "connect" =>
             /\ Len(outbox') = Len(outbox) + 1
             /\ ev'.conn = Len(outbox')
             /\ outbox'[ev'.conn].last =
                  [type |-> "hello", id |-> conns'[ev'.conn].id,
                   name |-> players'[conns'[ev'.conn].id].name]
             /\ players'[conns'[ev'.conn].id].id = conns'[ev'.conn].id
        /\ ev'.kind # "connect" => Len(outbox') = Len(outbox)]_vars

C21_Witness ==
  /\ Len(conns) = 2
  /\ \A c \in 1..2 : outbox[c].last.type = "snapshot" /\ outbox[c].hellos = 1

\* C22: a snapshot is the full registry at the end of the tick's step (the
\* connected players with id, name and position, one entry per herd with one
\* tuple per animal, every live wolf's position, the whole patch set), and
\* every open connection is sent the same one
C22_SnapshotIsFullRegistry ==
  [][(ev'.kind = "tick" /\ ev'.snap) =>
       \A c \in 1..Len(conns') :
         IF conns'[c].open
           THEN LET m == outbox'[c].last
                IN /\ m.type = "snapshot"
                   /\ Len(m.players) = Cardinality(DOMAIN players')
                   /\ {m.players[k].id : k \in 1..Len(m.players)} = DOMAIN players'
                   /\ \A k \in 1..Len(m.players) :
                        m.players[k] = [id |-> m.players[k].id,
                                        name |-> players'[m.players[k].id].name,
                                        x |-> players'[m.players[k].id].x,
                                        y |-> players'[m.players[k].id].y]
                   /\ DOMAIN m.herds = DOMAIN herds'
                   /\ \A id \in DOMAIN herds' :
                        /\ Len(m.herds[id]) = Len(herds'[id])
                        /\ \A i \in 1..Len(herds'[id]) :
                             m.herds[id][i] = <<herds'[id][i].x, herds'[id][i].y,
                                                herds'[id][i].full,
                                                IF herds'[id][i].cd > 0 THEN herds'[id][i].cd ELSE 0>>
                   /\ Len(m.wolves) = Len(wolves')
                   /\ \A i \in 1..Len(wolves') : m.wolves[i] = <<wolves'[i].x, wolves'[i].y>>
                   /\ m.patches = foodPatches'
                   /\ \A d \in 1..Len(conns') : conns'[d].open => outbox'[d].last = m
           ELSE outbox'[c] = outbox[c]]_vars

C22_Witness ==
  /\ ev.kind = "tick" /\ ev.snap
  /\ Len(conns) = 2 /\ conns[1].open /\ conns[2].open
  /\ Cardinality(DOMAIN players) = 2
  /\ Len(wolves) >= 1
  /\ outbox[1].last.type = "snapshot" /\ Len(outbox[1].last.wolves) >= 1
  /\ \E id \in DOMAIN herds : Len(herds[id]) >= 2

C24_World200Thresholds ==
  (ev.kind = "bands" /\ ev.n = WORLD) =>
    /\ ev.cx = cx /\ ev.maxR = maxR /\ ev.edges = edges
    /\ ev.edges.pasture = ev.maxR
    /\ ev.edges.pasture > ev.edges.water
    /\ ev.edges.water > ev.edges.glen
    /\ ev.edges.glen > ev.edges.dark
    /\ ev.edges.dark >= 0
    /\ ringAt(cx, cy) = "dark"
    /\ ~Beyond(cx, cy, ev.edges.dark)

C24_Witness ==
  /\ ev.kind = "bands" /\ ev.n = WORLD
  /\ ev.edges = [pasture |-> 99, water |-> 55, glen |-> 39, dark |-> 15]

\* C25: for every world side from MinSide on, the widths add up to at most
\* maxR = floor(N / 2) - 1, the dark width is at least 2, and the four
\* thresholds are strictly decreasing, so that no band is empty
C25_BandsFitEverySide ==
  (ev.kind = "bands" /\ ev.n >= MinSide) =>
    /\ ev.maxR = ev.n \div 2 - 1
    /\ ev.widths.rPasture + ev.widths.rWater + ev.widths.rGlen + ev.widths.rDark <= ev.maxR
    /\ ev.widths.rDark >= 2
    /\ ev.widths.rPasture >= 1 /\ ev.widths.rWater >= 1 /\ ev.widths.rGlen >= 1
    /\ ev.edges.pasture > ev.edges.water
    /\ ev.edges.water > ev.edges.glen
    /\ ev.edges.glen > ev.edges.dark
    /\ ev.edges.dark >= ev.widths.rDark

C25_Witness ==
  /\ ev.kind = "bands" /\ ev.n = MaxSide
  /\ ev.widths.rPasture + ev.widths.rWater + ev.widths.rGlen + ev.widths.rDark = ev.maxR

\* C26: a cell is a crossing exactly when it is a water cell on one of the
\* four rays that leave the centre north, east, south and west, with no
\* pasture cell on the ray between the centre and it
C26_CrossingsAreRayWater ==
  ev.kind = "cell" =>
    (ev.bridge <=>
       /\ ringAt(ev.x, ev.y) = "water"
       /\ ev.x = cx \/ ev.y = cy
       /\ \A j \in 1..(Max(ev.x - cx, cx - ev.x) + Max(ev.y - cy, cy - ev.y) - 1) :
            ringAt(IF ev.x > cx THEN cx + j ELSE IF ev.x < cx THEN cx - j ELSE cx,
                   IF ev.y > cy THEN cy + j ELSE IF ev.y < cy THEN cy - j ELSE cy) # "pasture")

C26_Witness ==
  /\ ev.kind = "cell" /\ ev.bridge /\ ev.ring = "water"
  /\ ev.x = 154 /\ ev.y = cy

\* C27: after every tick each animal stands where the clamp rule keeps it or
\* on a cell that can be walked
C27_AnimalsOnPassableTerrain ==
  ev.kind = "tick" =>
    \A id \in DOMAIN herds :
      \A i \in 1..Len(herds[id]) :
        \/ clampToPasturePxKeeps(herds[id][i].x, herds[id][i].y)
        \/ canWalk(herds[id][i].x \div TILE, herds[id][i].y \div TILE)

\* C28: the capture check leaves the wolves as updateWolves left them (a wolf
\* that caught a sheep stays in the list), and a wolf leaves the list only
\* when its countdown reaches zero
C28_CaptureKeepsWolf ==
  [][ev'.kind = "tick" =>
       /\ \A k \in 1..Len(ev'.caps) : \E i \in 1..Len(wolves') : wolves'[i].uid = ev'.caps[k].wolf
       /\ \A j \in 1..Len(wolves) :
            (\A i \in 1..Len(wolves') : wolves'[i].uid # wolves[j].uid)
              <=> wolves[j].life - TICK_MS <= 0
       /\ \E surv \in {SelectSeq(wolves, LAMBDA w : w.life - TICK_MS > 0)} :
            /\ Len(wolves') = Len(surv) + (IF ev'.born THEN 1 ELSE 0)
            /\ \A i \in 1..Len(surv) : wolves'[i].uid = surv[i].uid]_vars

\* a tick in which a wolf caught a sheep and is still in the list
C28_Witness ==
  /\ ev.kind = "tick"
  /\ \E k \in 1..Len(ev.caps) :
       /\ ev.caps[k].removed # 0
       /\ \E i \in 1..Len(wolves) : wolves[i].uid = ev.caps[k].wolf /\ wolves[i].caught >= 1

\* C29: a wolf that has caught a sheep lingers: from the tick of the catch on
\* its remaining lifetime is at most LINGER_MS and its speed is below the
\* chase speed (the 0.95 factor applied at least once)
C29_LingersAfterCapture ==
  ev.kind = "tick" =>
    \A i \in 1..Len(wolves) :
      wolves[i].caught >= 1 =>
        /\ wolves[i].life <= LINGER_MS
        /\ 10000 * (wolves[i].vx * wolves[i].vx + wolves[i].vy * wolves[i].vy)
             <= 95 * 95 * WOLF_SPEED * WOLF_SPEED

\* C30: createFoodPatches(n) reads at most 50 * n samples and returns at most
\* n pasture cells, fewer or none when the samples of the budget miss; a
\* spawn attempt reads at most 1000 samples and adds one wolf or none; a
\* respawn or a spawn whose budget runs out leaves its collection as it was
C30_PlacementWithinBudget ==
  /\ [](ev.kind = "scatter" =>
          /\ Len(foodPatches) <= ev.n
          /\ \A i \in 1..Len(foodPatches) :
               /\ ringAt(foodPatches[i][1], foodPatches[i][2]) = "pasture"
               /\ \E g \in 1..Min(Len(ev.samples), 50 * ev.n) : ev.samples[g] = foodPatches[i]
               /\ \A j \in 1..Len(foodPatches) : foodPatches[j] = foodPatches[i] => j = i)
  /\ [][/\ ev'.kind = "respawn" =>
             /\ Len(foodPatches') \in {Len(foodPatches), Len(foodPatches) + 1}
             /\ \A i \in 1..Len(foodPatches) : foodPatches'[i] = foodPatches[i]
             /\ Len(foodPatches') > Len(foodPatches) =>
                  /\ ev'.crossed /\ Len(foodPatches') <= FOOD_PATCH_COUNT
                  /\ ringAt(foodPatches'[Len(foodPatches')][1],
                            foodPatches'[Len(foodPatches')][2]) = "pasture"
                  /\ \E g \in 1..Min(Len(ev'.samples), 50) :
                       ev'.samples[g] = foodPatches'[Len(foodPatches')]
        /\ ev'.kind = "spawn" =>
             /\ Len(wolves') \in {Len(wolves), Len(wolves) + 1}
             /\ \A i \in 1..Len(wolves) : wolves'[i] = wolves[i]
             /\ Len(wolves') > Len(wolves) =>
                  /\ ev'.hit /\ Len(wolves') <= WOLF_MAX
                  /\ \E g \in 1..Min(Len(ev'.samples), 1000) :
                       /\ ringAt(ev'.samples[g][1], ev'.samples[g][2]) \in {"glen", "dark"}
                       /\ wolves'[Len(wolves')].x = ev'.samples[g][1] * TILE + TILE \div 2
                       /\ wolves'[Len(wolves')].y = ev'.samples[g][2] * TILE + TILE \div 2]_vars

\* a respawn whose 50 samples all missed the pasture, although the next one
\* would have hit: the patches stay as they were and the handler goes on
C30_Witness ==
  /\ ev.kind = "respawn" /\ ev.crossed
  /\ Len(ev.samples) > 50
  /\ \A g \in 1..50 : ringAt(ev.samples[g][1], ev.samples[g][2]) # "pasture"
  /\ ringAt(ev.samples[51][1], ev.samples[51][2]) = "pasture"
  /\ \A i \in 1..Len(foodPatches) : foodPatches[i] # ev.samples[51]
  /\ Len(foodPatches) < FOOD_PATCH_COUNT

\* C31: there are never more than WOLF_MAX wolves, and a tick adds at most
\* one wolf to those that stay
C31_WolvesCapped ==
  /\ [](Len(wolves) <= WOLF_MAX)
  /\ [][ev'.kind = "tick" =>
          /\ Len(wolves') <= Len(wolves) + 1
          /\ Cardinality({i \in 1..Len(wolves') :
                            \A j \in 1..Len(wolves) : wolves[j].uid # wolves'[i].uid}) <= 1]_vars

\* a tick whose spawn draw hit while the pack was full
C31_Witness ==
  /\ ev.kind = "tick" /\ ~ev.born
  /\ Len(wolves) = WOLF_MAX
  /\ \E i \in 1..Len(wolves) : wolves[i].age >= 2
  /\ \A i \in 1..Len(wolves) : wolves[i].age < PackSetupTicks

\* C32: every sheep that the capture step of a tick removes from its flock
\* was itself within CAPTURE_DIST of a wolf in that tick, and a successful
\* distance check removes no sheep but the one it was made against, also when
\* several wolves succeed against one flock or one sheep
C32_CaptureRemovesCheckedAnimal ==
  ev.kind = "tick" =>
    /\ \A k \in 1..Len(ev.caps) : ev.caps[k].removed \in {0, ev.caps[k].checked}
    /\ \A b \in 1..Len(ev.bred) :
         \A i \in 1..Len(ev.bred[b].after) :
           (/\ ev.bred[b].id \in DOMAIN herds
            /\ \A j \in 1..Len(herds[ev.bred[b].id]) :
                 herds[ev.bred[b].id][j].uid # ev.bred[b].after[i].uid)
             => \E k \in 1..Len(ev.caps) : ev.caps[k].checked = ev.bred[b].after[i].uid

\* C33: a close removes the player and the herd of the closed socket only:
\* after it every socket that is still open has its player and its herd,
\* whatever ids the sockets drew
C33_CloseLeavesOthers ==
  ev.kind = "close" =>
    /\ ~conns[ev.conn].open
    /\ \A c \in 1..Len(conns) :
         conns[c].open => conns[c].id \in DOMAIN players /\ conns[c].id \in DOMAIN herds

\* C34: after the client has applied a snapshot it holds the herds of that
\* snapshot and no other, each with as many sheep as the snapshot lists
C34_ViewIsLatestSnapshot ==
  ev.kind = "client" =>
    /\ DOMAIN ev.herds = DOMAIN ev.snap.herds
    /\ \A id \in DOMAIN ev.snap.herds : Len(ev.herds[id]) = Len(ev.snap.herds[id])

\* C35: a cell is a crossing of the server's buildBridges exactly if it is a
\* crossing of the client's buildBridges, and the two sets are the same
C35_ServerAndClientCrossingsAgree ==
  ev.kind = "cell" =>
    /\ ev.bridge <=> <<ev.x, ev.y>> \in clientBuildBridges
    /\ bridgeSet = clientBuildBridges

\* the outermost crossing of the west ray, where the client's ray goes on
\* over pasture and the server's ray stops
C35_Witness ==
  /\ ev.kind = "cell" /\ ev.bridge /\ <<ev.x, ev.y>> \in clientBuildBridges
  /\ ev.y = cy /\ ev.x < cx /\ ringAt(ev.x - 1, ev.y) = "pasture"
  /\ cx - (ev.x - 1) <= edges.water + 1

\* C36: a player who started on a pasture cell and moves by single steps
\* that canWalk accepts is on the water band only on crossing cells and never
\* on the dark band, and from every pasture cell the steps of WalkKey, each
\* accepted by canWalk, bring the player onto a glen cell
C36_WaterCrossedOnCrossings ==
  /\ [](ev.kind = "walk" =>
          /\ ev.ring = "water" => <<ev.x, ev.y>> \in bridgeSet
          /\ ev.ring # "dark")
  /\ (ev.kind = "walk" /\ ev.guided) ~> (ev.kind = "walk" /\ ev.guided /\ ev.ring = "glen")

\* a walk with free keys has gone onto the glen away from the crossing rows
C36_Witness == ev.kind = "walk" /\ ~ev.guided /\ ev.ring = "glen" /\ ev.y # cy /\ ev.x # cx

\* C37: in every tick a sheep that breeds (its satiety drops) leaves the
\* breed block with a cooldown of BREED_COOLDOWN_MS, and a sheep whose
\* cooldown before the tick was more than the tick's dtMs does not breed in
\* the tick and keeps at least its cooldown less dtMs, whatever it ate
C37_CooldownBlocksBreeding ==
  [][ev'.kind = "tick" =>
       \A b \in 1..Len(ev'.bred) : \A i \in 1..Len(ev'.bred[b].before) :
         /\ ev'.bred[b].after[i].full < ev'.bred[b].before[i].full
              => ev'.bred[b].after[i].cd = BREED_COOLDOWN_MS
         /\ ev'.bred[b].id \in DOMAIN herds =>
              \A j \in 1..Len(herds[ev'.bred[b].id]) :
                (/\ herds[ev'.bred[b].id][j].uid = ev'.bred[b].before[i].uid
                 /\ herds[ev'.bred[b].id][j].cd > ev'.dtMs)
                  => /\ ev'.bred[b].after[i].full >= ev'.bred[b].before[i].full
                     /\ ev'.bred[b].after[i].cd >= herds[ev'.bred[b].id][j].cd - ev'.dtMs]_vars

\* a sheep that is full again is still cooling down after a tick in which
\* another sheep of its herd was ready
C37_Witness ==
  /\ ev.kind = "tick"
  /\ \E b \in 1..Len(ev.bred) : \E i, j \in 1..Len(ev.bred[b].before) :
       /\ i # j
       /\ ev.bred[b].before[i].full >= MEALS_TO_BREED /\ ev.bred[b].before[i].cd > 0
       /\ ev.bred[b].after[i].full >= MEALS_TO_BREED
       /\ ev.bred[b].before[j].full >= MEALS_TO_BREED /\ ev.bred[b].before[j].cd = 0

\* C38: over every step a herd that stays in the registry grows by at most
\* one sheep, and a herd of fewer than two sheep does not grow at all
C38_SmallHerdNeverGrows ==
  [][\A id \in DOMAIN herds \cap DOMAIN herds' :
       /\ Len(herds'[id]) <= Len(herds[id]) + 1
       /\ Len(herds[id]) < 2 => Len(herds'[id]) <= Len(herds[id])]_vars

\* after a tick a connected player's herd is down to one sheep, which is full
C38_Witness ==
  /\ ev.kind = "tick"
  /\ \E id \in DOMAIN herds \cap DOMAIN players :
       /\ Len(herds[id]) = 1
       /\ herds[id][1].full >= MEALS_TO_BREED

====
